---- MODULE Spec2Model ----
(***************************************************************************)
(* Model of the chat store of the frontend (useChatStore in App.tsx) and   *)
(* of the two UI entry points that drive it (ChatPage, Sidebar).           *)
(*                                                                         *)
(* Every async store operation is split at its awaits: the synchronous     *)
(* prefix up to the first await is one action (...Start), the continuation *)
(* after the await is another (...Resolve).  The remote authority answers  *)
(* a request when it is issued; the answer then travels in `net' until the *)
(* client applies it, so answers are applied in any order.                 *)
(***************************************************************************)
EXTENDS Integers, Sequences, FiniteSets, Bags, TLC

(***************************************************************************)
(* Bounds of the model.                                                    *)
(***************************************************************************)
MaxSessions == 2        \* session identifiers the server can hand out
MaxSends == 2           \* messages the user submits (store specification)
MaxEvents == 1          \* frames one stream delivers (store specification)
MaxTurns == 1           \* messages the user submits (turn specification)
MaxOps == 1             \* actions of the user in the sidebar
MaxKeyedOps == 2        \* actions of the user while a stream goes on
MaxRegistryOps == 3     \* actions of the user (registry specification)
MaxStreamEvents == 5    \* frames one stream delivers (stream specification)
MaxAuthOps == 2         \* actions of the user (auth specification)
MaxTokens == 2          \* token pairs the server hands out

(***************************************************************************)
(* Values.                                                                 *)
(***************************************************************************)
None == 0                       \* currentSessionId: null / route: no :sessionId
Null == "null"                  \* error: null, currentPhase: null
SessionIds == 1..MaxSessions
SendIds == 1..MaxSends

NetErr == "Network Error"       \* error.message of a failed api call / read
EmptyId == <<"", 0>>            \* let finalMessageId = ''

\* `temp-${Date.now()}`, `temp-assistant-${Date.now()}`, and a
\* server-assigned identifier: a message id is <<prefix, number>>.
TempId(ts) == <<"temp-", ts>>
TempAssistantId(ts) == <<"temp-assistant-", ts>>
ServerId(n) == <<"m-", n>>

\* m.id.startsWith('temp-')
StartsWithTemp(id) == id[1] \in {"temp-", "temp-assistant-"}

\* the auth store: a token is <<kind, number>>, null is NoToken
AccessToken(n) == <<"access", n>>
RefreshToken(n) == <<"refresh", n>>
NoToken == <<"", 0>>
Account == [id |-> 1, username |-> "alice"]     \* the data of GET /auth/me
NoUser == [id |-> 0, username |-> ""]           \* user: null

\* the initial state of useAuthStore
SignedOut ==
    [user |-> NoUser, accessToken |-> NoToken, refreshToken |-> NoToken,
     isAuthenticated |-> FALSE, isLoading |-> FALSE, error |-> Null]

\* the state rehydrated from 'auth-storage' after an earlier login
SignedIn ==
    [user |-> Account, accessToken |-> AccessToken(1),
     refreshToken |-> RefreshToken(1),
     isAuthenticated |-> TRUE, isLoading |-> FALSE, error |-> Null]

VARIABLES
    sessions,           \* Session[]
    currentSessionId,   \* string | null
    sessionMessages,    \* Record<string, Message[]>
    isLoadingSessions,
    isLoadingMessages,
    isSending,
    isGeneratingTitle,
    streamingContent,
    currentPhase,
    error,
    route,              \* useParams().sessionId of the page shown
    timers,             \* pending setTimeout(() => sendMessage(message), 100)
    titleTimers,        \* pending setTimeout(() => generateSessionTitle(id), 500)
    sends,              \* the sendMessage invocations and their locals
    net,                \* answers of the remote authority not yet applied
    srv,                \* the remote authority's sessions
    removed,            \* ids whose delete / archive the store has applied
    ops,                \* actions the user has taken in the sidebar
    submits,            \* messages the user has submitted
    effectDirty,        \* ChatPage's effect is due
    logs,               \* the frames each send has read, where they are recorded
    wire,                \* the response body of each send, where it is read in chunks
    auth,               \* the state of useAuthStore
    authDirty           \* AppContent's effect is due after a render with isAuthenticated

storeVars == <<sessions, currentSessionId, sessionMessages, isLoadingSessions,
               isLoadingMessages, isSending, isGeneratingTitle,
               streamingContent, currentPhase, error>>
vars == <<sessions, currentSessionId, sessionMessages, isLoadingSessions,
          isLoadingMessages, isSending, isGeneratingTitle, streamingContent,
          currentPhase, error, route, timers, titleTimers, sends, net, srv,
          removed, ops, submits, effectDirty, logs, wire, auth, authDirty>>
authVars == <<auth, authDirty>>

(***************************************************************************)
(* Messages and the message cache.                                         *)
(***************************************************************************)
UserMessage(ts, content) ==
    [id |-> TempId(ts), role |-> "user", content |-> content,
     created_at |-> ts, isStreaming |-> FALSE]

AssistantMessage(ts) ==
    [id |-> TempAssistantId(ts), role |-> "assistant", content |-> "",
     created_at |-> ts, isStreaming |-> TRUE]

\* state.sessionMessages[sessionId] || []
GetMsgs(sm, sid) == IF sid \in DOMAIN sm THEN sm[sid] ELSE <<>>

\* { ...state.sessionMessages, [sessionId]: msgs }
SetMsgs(sm, sid, msgs) ==
    [x \in (DOMAIN sm) \cup {sid} |-> IF x = sid THEN msgs ELSE sm[x]]

\* delete newSessionMessages[sessionId]
DelMsgs(sm, sid) == [x \in (DOMAIN sm) \ {sid} |-> sm[x]]

\* [...(state.sessionMessages[sessionId] || []), userMessage, assistantMessage]
AppendPair(sm, sid, ts, content) ==
    SetMsgs(sm, sid,
            GetMsgs(sm, sid) \o <<UserMessage(ts, content), AssistantMessage(ts)>>)

\* variant: the content is written whether or not the last message streams
ApplyMessageUnguarded(msgs, streamed) ==
    IF Len(msgs) > 0
    THEN [msgs EXCEPT ![Len(msgs)].content = streamed]
    ELSE msgs

\* variant: the handler appends the buffer to the rendered content
ApplyMessageAppend(msgs, streamed) ==
    IF Len(msgs) > 0 /\ msgs[Len(msgs)].isStreaming
    THEN [msgs EXCEPT ![Len(msgs)].content = @ \o streamed]
    ELSE msgs

\* if (lastMessage?.isStreaming) lastMessage.content = streamedContent
ApplyMessage(msgs, streamed) ==
    IF Len(msgs) > 0 /\ msgs[Len(msgs)].isStreaming
    THEN [msgs EXCEPT ![Len(msgs)].content = streamed]
    ELSE msgs

\* variant: the identifier is assigned without the test of finalMessageId
FinalizeMsgsAlwaysId(msgs, finalId) ==
    IF Len(msgs) > 0 /\ msgs[Len(msgs)].isStreaming
    THEN [msgs EXCEPT ![Len(msgs)].isStreaming = FALSE,
                      ![Len(msgs)].id = finalId]
    ELSE msgs

\* if (lastMessage?.isStreaming) { isStreaming = false; if (finalMessageId) id = finalMessageId }
FinalizeMsgs(msgs, finalId) ==
    IF Len(msgs) > 0 /\ msgs[Len(msgs)].isStreaming
    THEN [msgs EXCEPT ![Len(msgs)].isStreaming = FALSE,
                      ![Len(msgs)].id = IF finalId /= EmptyId THEN finalId ELSE @]
    ELSE msgs

\* .filter((m) => !m.id.startsWith('temp-'))
RollbackMsgs(msgs) == SelectSeq(msgs, LAMBDA m : ~StartsWithTemp(m.id))

(***************************************************************************)
(* Sessions and the session list.                                          *)
(***************************************************************************)
ListIds(list) == {list[i].id : i \in 1..Len(list)}

\* the comparator of togglePinSession's sort returns a negative number
SessBefore(a, b) ==
    IF a.is_pinned /= b.is_pinned THEN a.is_pinned
    ELSE b.updated_at - a.updated_at < 0

\* Array.prototype.sort is stable: x goes before the first element it precedes
RECURSIVE InsertSorted(_, _)
InsertSorted(list, x) ==
    IF list = <<>> THEN <<x>>
    ELSE IF SessBefore(x, Head(list)) THEN <<x>> \o list
    ELSE <<Head(list)>> \o InsertSorted(Tail(list), x)

RECURSIVE SortSessions(_)
SortSessions(list) ==
    IF list = <<>> THEN <<>>
    ELSE InsertSorted(SortSessions(SubSeq(list, 1, Len(list) - 1)), list[Len(list)])

\* state.sessions.filter((s) => s.id !== sessionId)
FilterOut(list, sid) == SelectSeq(list, LAMBDA s : s.id /= sid)

\* state.sessions.map(s => s.id === sessionId ? { ...s, ...patch } : s)
MergeInto(list, sid, patch) ==
    [i \in 1..Len(list) |->
        IF list[i].id = sid
        THEN [f \in DOMAIN list[i] \cup DOMAIN patch |->
                 IF f \in DOMAIN patch THEN patch[f] ELSE list[i][f]]
        ELSE list[i]]

(***************************************************************************)
(* The remote authority (the backend is not part of the frontend sources). *)
(***************************************************************************)
SrvAbsent == [status |-> "absent", title |-> "", is_pinned |-> FALSE, updated_at |-> 0]

SrvSession(sid) ==
    [id |-> sid, title |-> srv[sid].title, is_pinned |-> srv[sid].is_pinned,
     updated_at |-> srv[sid].updated_at]

RECURSIVE SrvListUpTo(_)
SrvListUpTo(n) ==
    IF n = 0 THEN <<>>
    ELSE IF srv[n].status = "active"
         THEN InsertSorted(SrvListUpTo(n - 1), SrvSession(n))
         ELSE SrvListUpTo(n - 1)

\* GET /sessions: the active sessions, pinned first, most recent first
SrvList == SrvListUpTo(MaxSessions)

\* GET /sessions/{id}: the persisted messages carry server identifiers
SrvMessageLists ==
    { <<>>,
      << [id |-> ServerId(1), role |-> "user", content |-> "hello",
          created_at |-> 0, isStreaming |-> FALSE],
         [id |-> ServerId(2), role |-> "assistant", content |-> "Hello",
          created_at |-> 0, isStreaming |-> FALSE] >> }

FreshIds == {sid \in SessionIds : srv[sid].status = "absent"}
NextFreshId == CHOOSE sid \in FreshIds : \A o \in FreshIds : sid <= o

(***************************************************************************)
(* Requests in flight.                                                     *)
(***************************************************************************)
Put(r) == net (+) SetToBag({r})
Take(r) == net (-) SetToBag({r})
Pending == BagToSet(net)
Inflight == BagCardinality(net)


(***************************************************************************)
(* Session Registry operations.                                            *)
(***************************************************************************)
uiVars == <<route, timers>>
msgVars == <<sessionMessages, streamingContent>>
flagVars == <<isLoadingSessions, isLoadingMessages, isSending, isGeneratingTitle>>
srvVars == <<srv>>

\* fetchSessions up to its await: set({ isLoadingSessions: true, error: null })
\* and GET /sessions, which fails or is answered with the list as it is now.
FetchAnswers == {[op |-> "fetch", ok |-> TRUE, sessions |-> SrvList],
                 [op |-> "fetch", ok |-> FALSE, sessions |-> <<>>]}

\* AppContent's and Layout's effects call fetchSessions
FetchStart ==
    /\ isLoadingSessions' = TRUE
    /\ error' = Null
    /\ \E r \in FetchAnswers : net' = Put(r)
    /\ UNCHANGED <<sessions, currentSessionId, msgVars, isLoadingMessages,
                   isSending, isGeneratingTitle, currentPhase, uiVars,
                   titleTimers, sends, srvVars, removed>>

\* variant: the catch block empties the list
FetchResolveDropsList(r) ==
    /\ r \in Pending /\ r.op = "fetch"
    /\ net' = Take(r)
    /\ IF r.ok
       THEN /\ sessions' = r.sessions
            /\ error' = error
       ELSE /\ sessions' = <<>>
            /\ error' = NetErr
    /\ isLoadingSessions' = FALSE
    /\ UNCHANGED <<currentSessionId, msgVars, isLoadingMessages, isSending,
                   isGeneratingTitle, currentPhase, uiVars, titleTimers,
                   sends, srvVars, removed>>

\* fetchSessions after its await
FetchResolve(r) ==
    /\ r \in Pending /\ r.op = "fetch"
    /\ net' = Take(r)
    /\ IF r.ok
       THEN /\ sessions' = r.sessions
            /\ error' = error
       ELSE /\ sessions' = sessions
            /\ error' = NetErr
    /\ isLoadingSessions' = FALSE
    /\ UNCHANGED <<currentSessionId, msgVars, isLoadingMessages, isSending,
                   isGeneratingTitle, currentPhase, uiVars, titleTimers,
                   sends, srvVars, removed>>

\* POST /sessions: the server creates a session or the call fails
CreateAnswers(caller, k, content) ==
    {[op |-> "create", ok |-> FALSE, session |-> SrvAbsent, caller |-> caller,
      k |-> k, content |-> content]}
    \cup
    (IF FreshIds = {} THEN {}
     ELSE {[op |-> "create", ok |-> TRUE,
            session |-> [id |-> NextFreshId, title |-> "New Chat",
                         is_pinned |-> FALSE, updated_at |-> NextFreshId],
            caller |-> caller, k |-> k, content |-> content]})

SrvCreate(r) ==
    IF r.ok
    THEN srv' = [srv EXCEPT ![r.session.id] =
                    [status |-> "active", title |-> r.session.title,
                     is_pinned |-> FALSE, updated_at |-> r.session.updated_at]]
    ELSE UNCHANGED srvVars

\* Sidebar.handleNewChat: createSession() up to its await
NewChatStart ==
    /\ error' = Null
    /\ \E r \in CreateAnswers("newchat", 0, "") : net' = Put(r) /\ SrvCreate(r)
    /\ UNCHANGED <<sessions, currentSessionId, msgVars, flagVars, currentPhase,
                   uiVars, titleTimers, sends, removed>>

\* variant: the created session is put last
CreatedSessionsAppended(r) == sessions \o <<r.session>>

\* createSession's set after its await
CreatedSessions(r) == <<r.session>> \o sessions
\* variant: the new cache is built without spreading the previous entries
CreatedMessagesNoSpread(r) == SetMsgs(<<>>, r.session.id, <<>>)

CreatedMessages(r) == SetMsgs(sessionMessages, r.session.id, <<>>)

\* createSession after its await, called by Sidebar.handleNewChat,
\* which then navigates to the created session
NewChatResolve(r) ==
    /\ r \in Pending /\ r.op = "create" /\ r.caller = "newchat"
    /\ net' = Take(r)
    /\ IF r.ok
       THEN /\ sessions' = CreatedSessions(r)
            /\ currentSessionId' = r.session.id
            /\ sessionMessages' = CreatedMessages(r)
            /\ route' = r.session.id
            /\ error' = error
       ELSE /\ error' = NetErr
            /\ UNCHANGED <<sessions, currentSessionId, sessionMessages, route>>
    /\ UNCHANGED <<streamingContent, flagVars, currentPhase, timers,
                   titleTimers, sends, srvVars, removed>>

\* the sessions the Sidebar shows
Shown == ListIds(sessions)

\* deleteSession up to its await: DELETE /sessions/{id}
DeleteStart(sid) ==
    /\ sid \in Shown
    /\ \E ok \in BOOLEAN :
          /\ ok => srv[sid].status \in {"active", "archived"}
          /\ net' = Put([op |-> "delete", id |-> sid, ok |-> ok])
          /\ srv' = IF ok THEN [srv EXCEPT ![sid].status = "deleted"] ELSE srv
    /\ UNCHANGED <<storeVars, uiVars, titleTimers, sends, removed>>

\* deleteSession after its await
DeleteResolve(r) ==
    /\ r \in Pending /\ r.op = "delete"
    /\ net' = Take(r)
    /\ IF r.ok
       THEN /\ sessions' = FilterOut(sessions, r.id)
            /\ currentSessionId' =
                   IF currentSessionId = r.id THEN None ELSE currentSessionId
            /\ sessionMessages' = DelMsgs(sessionMessages, r.id)
            /\ removed' = removed \cup {r.id}
            /\ error' = error
       ELSE /\ error' = NetErr
            /\ UNCHANGED <<sessions, currentSessionId, sessionMessages, removed>>
    /\ UNCHANGED <<streamingContent, flagVars, currentPhase, uiVars,
                   titleTimers, sends, srvVars>>

\* archiveSession up to its await: POST /sessions/{id}/archive
ArchiveStart(sid) ==
    /\ sid \in Shown
    /\ \E ok \in BOOLEAN :
          /\ ok => srv[sid].status = "active"
          /\ net' = Put([op |-> "archive", id |-> sid, ok |-> ok])
          /\ srv' = IF ok THEN [srv EXCEPT ![sid].status = "archived"] ELSE srv
    /\ UNCHANGED <<storeVars, uiVars, titleTimers, sends, removed>>

\* variant: the current session is cleared whichever session was archived
ArchiveResolveClearsCurrent(r) ==
    /\ r \in Pending /\ r.op = "archive"
    /\ net' = Take(r)
    /\ IF r.ok
       THEN /\ sessions' = FilterOut(sessions, r.id)
            /\ currentSessionId' = None
            /\ removed' = removed \cup {r.id}
            /\ error' = error
       ELSE /\ error' = NetErr
            /\ UNCHANGED <<sessions, currentSessionId, removed>>
    /\ UNCHANGED <<msgVars, flagVars, currentPhase, uiVars, titleTimers,
                   sends, srvVars>>

\* archiveSession after its await
ArchiveResolve(r) ==
    /\ r \in Pending /\ r.op = "archive"
    /\ net' = Take(r)
    /\ IF r.ok
       THEN /\ sessions' = FilterOut(sessions, r.id)
            /\ currentSessionId' =
                   IF currentSessionId = r.id THEN None ELSE currentSessionId
            /\ removed' = removed \cup {r.id}
            /\ error' = error
       ELSE /\ error' = NetErr
            /\ UNCHANGED <<sessions, currentSessionId, removed>>
    /\ UNCHANGED <<msgVars, flagVars, currentPhase, uiVars, titleTimers,
                   sends, srvVars>>

\* togglePinSession up to its await: POST /sessions/{id}/pin
PinStart(sid) ==
    /\ sid \in Shown
    /\ \E ok \in BOOLEAN :
          /\ ok => srv[sid].status = "active"
          /\ net' = Put([op |-> "pin", id |-> sid, ok |-> ok,
                         is_pinned |-> IF ok THEN ~srv[sid].is_pinned ELSE FALSE])
          /\ srv' = IF ok THEN [srv EXCEPT ![sid].is_pinned = ~@] ELSE srv
    /\ UNCHANGED <<storeVars, uiVars, titleTimers, sends, removed>>

\* togglePinSession's set: apply the returned flag, then sort the list
PinnedSessions(list, sid, pinned) ==
    SortSessions(MergeInto(list, sid, [is_pinned |-> pinned]))

\* togglePinSession after its await
PinResolve(r) ==
    /\ r \in Pending /\ r.op = "pin"
    /\ net' = Take(r)
    /\ IF r.ok
       THEN /\ sessions' = PinnedSessions(sessions, r.id, r.is_pinned)
            /\ error' = error
       ELSE /\ error' = NetErr
            /\ sessions' = sessions
    /\ UNCHANGED <<currentSessionId, msgVars, flagVars, currentPhase, uiVars,
                   titleTimers, sends, srvVars, removed>>

(***************************************************************************)
(* Message Cache: selectSession, driven by the route.                      *)
(***************************************************************************)
\* Sidebar.handleSelectSession: navigate(`/chat/${id}`)
Navigate(sid) ==
    /\ sid \in Shown
    /\ sid /= route
    /\ route' = sid
    /\ UNCHANGED <<storeVars, timers, titleTimers, sends, net, srvVars, removed>>

\* GET /sessions/{id}
SelectAnswers(sid) ==
    {[op |-> "select", id |-> sid, ok |-> FALSE, messages |-> <<>>,
      session |-> SrvAbsent]}
    \cup
    (IF srv[sid].status \in {"active", "archived"}
     THEN {[op |-> "select", id |-> sid, ok |-> TRUE, messages |-> ms,
            session |-> SrvSession(sid)] : ms \in SrvMessageLists}
     ELSE {})

\* variant: the session becomes current only when the answer arrives
SelectStartWaits(sid) ==
    /\ currentSessionId' = currentSessionId
    /\ isLoadingMessages' = TRUE
    /\ currentPhase' = Null
    /\ error' = Null
    /\ \E r \in SelectAnswers(sid) : net' = Put(r)
    /\ UNCHANGED <<sessions, msgVars, isLoadingSessions, isSending,
                   isGeneratingTitle, uiVars, titleTimers, sends, srvVars,
                   removed>>

\* selectSession up to its await
SelectStart(sid) ==
    /\ currentSessionId' =
           IF sid \in DOMAIN sessionMessages THEN sid ELSE currentSessionId
    /\ isLoadingMessages' = TRUE
    /\ currentPhase' = Null
    /\ error' = Null
    /\ \E r \in SelectAnswers(sid) : net' = Put(r)
    /\ UNCHANGED <<sessions, msgVars, isLoadingSessions, isSending,
                   isGeneratingTitle, uiVars, titleTimers, sends, srvVars,
                   removed>>

\* ChatPage's effect, run after a render in which sessionId or
\* currentSessionId changed:
\* if (sessionId && sessionId !== currentSessionId) selectSession(sessionId)
EffectRun ==
    /\ effectDirty
    /\ IF route /= None /\ route /= currentSessionId
       THEN SelectStart(route)
       ELSE UNCHANGED <<storeVars, uiVars, titleTimers, sends, net, srvVars,
                        removed>>
    /\ effectDirty' = (currentSessionId' /= currentSessionId)
    /\ ops' = ops
    /\ submits' = submits
    /\ logs' = logs
    /\ wire' = wire
    /\ UNCHANGED authVars

\* variant: the catch block forgets the current session
SelectResolveDropsCurrent(r) ==
    /\ r \in Pending /\ r.op = "select"
    /\ net' = Take(r)
    /\ IF r.ok
       THEN /\ currentSessionId' = r.id
            /\ sessionMessages' = SetMsgs(sessionMessages, r.id, r.messages)
            /\ sessions' = MergeInto(sessions, r.id, r.session)
            /\ error' = error
       ELSE /\ error' = NetErr
            /\ currentSessionId' = None
            /\ UNCHANGED <<sessionMessages, sessions>>
    /\ isLoadingMessages' = FALSE
    /\ UNCHANGED <<streamingContent, isLoadingSessions, isSending,
                   isGeneratingTitle, currentPhase, uiVars, titleTimers,
                   sends, srvVars, removed>>

\* selectSession after its await
SelectResolve(r) ==
    /\ r \in Pending /\ r.op = "select"
    /\ net' = Take(r)
    /\ IF r.ok
       THEN /\ currentSessionId' = r.id
            /\ sessionMessages' = SetMsgs(sessionMessages, r.id, r.messages)
            /\ sessions' = MergeInto(sessions, r.id, r.session)
            /\ error' = error
       ELSE /\ error' = NetErr
            /\ UNCHANGED <<currentSessionId, sessionMessages, sessions>>
    /\ isLoadingMessages' = FALSE
    /\ UNCHANGED <<streamingContent, isLoadingSessions, isSending,
                   isGeneratingTitle, currentPhase, uiVars, titleTimers,
                   sends, srvVars, removed>>

\* clearError
ClearError ==
    /\ error /= Null
    /\ error' = Null
    /\ UNCHANGED <<sessions, currentSessionId, msgVars, flagVars, currentPhase,
                   uiVars, titleTimers, sends, net, srvVars, removed>>


(***************************************************************************)
(* sendMessage.                                                            *)
(***************************************************************************)
IdleSend ==
    [pc |-> "idle", sessionId |-> None, content |-> "", ts |-> 0,
     streamedContent |-> "", finalMessageId |-> EmptyId,
     frames |-> 0, pre |-> <<>>, created |-> FALSE]

\* a send whose response body is not modelled as bytes
NoWire == [rest |-> <<>>, body |-> <<>>]

IdleSends == {k \in SendIds : sends[k].pc = "idle"}
NextSend == CHOOSE k \in IdleSends : \A o \in IdleSends : k <= o

\* the frames of the protocol: { event, data }
MessageEvent(chunk) == [event |-> "message", chunk |-> chunk]
PhaseEvent(phase) == [event |-> "phase", phase |-> phase]
DoneEvent(id) == [event |-> "done", assistant_message_id |-> id]
ErrorEvent(message) == [event |-> "error", message |-> message]

\* the frames a stream of the store specification delivers
StoreEvents ==
    {MessageEvent("Hi"), PhaseEvent("responding"), DoneEvent(ServerId(3)),
     ErrorEvent("boom")}

\* the reasons the try block of sendMessage throws before / while reading
RequestErrs == {"Stream request failed", "No reader available", NetErr}
ReadErrs == {NetErr}

\* the user and assistant messages are added: set((state) => ({ sessionMessages:
\* ..., isSending: true, streamingContent: '', currentPhase: 'thinking', error: null }))
Provision(k, sid, content, sm, created) ==
    /\ sessionMessages' = AppendPair(sm, sid, k, content)
    /\ isSending' = TRUE
    /\ streamingContent' = ""
    /\ currentPhase' = "thinking"
    /\ error' = Null
    /\ sends' = [sends EXCEPT ![k] =
                    [pc |-> "requesting", sessionId |-> sid, content |-> content,
                     ts |-> k, streamedContent |-> "",
                     finalMessageId |-> EmptyId, frames |-> 0,
                     pre |-> GetMsgs(sm, sid), created |-> created]]

\* sendMessage(content) up to its first await: createSession() when no
\* session is current, else the provisional pair and the stream request
SendBegin(k, content) ==
    IF currentSessionId = None
    THEN /\ error' = Null
         /\ \E r \in CreateAnswers("send", k, content) :
               net' = Put(r) /\ SrvCreate(r)
         /\ sends' = [sends EXCEPT ![k] =
                         [IdleSend EXCEPT !.pc = "creating", !.content = content]]
         /\ UNCHANGED <<sessions, currentSessionId, msgVars, flagVars,
                        currentPhase, titleTimers, removed>>
    ELSE /\ Provision(k, currentSessionId, content, sessionMessages, FALSE)
         /\ UNCHANGED <<sessions, currentSessionId, isLoadingSessions,
                        isLoadingMessages, isGeneratingTitle, titleTimers,
                        net, srvVars, removed>>

\* ChatPage.handleSubmit on a route with a session: sendMessage(message)
SubmitSend(content) ==
    /\ ~isSending
    /\ route /= None
    /\ IdleSends /= {}
    /\ SendBegin(NextSend, content)
    /\ UNCHANGED uiVars

\* ChatPage.handleSubmit on the route without a session, up to its await
SubmitCreateStart(content) ==
    /\ ~isSending
    /\ route = None
    /\ error' = Null
    /\ \E r \in CreateAnswers("submit", 0, content) : net' = Put(r) /\ SrvCreate(r)
    /\ UNCHANGED <<sessions, currentSessionId, msgVars, flagVars, currentPhase,
                   uiVars, titleTimers, sends, removed>>

\* ... and after it: navigate to the session, send after a small delay
SubmitCreateResolve(r) ==
    /\ r \in Pending /\ r.op = "create" /\ r.caller = "submit"
    /\ net' = Take(r)
    /\ IF r.ok
       THEN /\ sessions' = CreatedSessions(r)
            /\ currentSessionId' = r.session.id
            /\ sessionMessages' = CreatedMessages(r)
            /\ route' = r.session.id
            /\ timers' = timers (+) SetToBag({r.content})
            /\ error' = error
       ELSE /\ error' = NetErr
            /\ UNCHANGED <<sessions, currentSessionId, sessionMessages, route,
                           timers>>
    /\ UNCHANGED <<streamingContent, flagVars, currentPhase, titleTimers,
                   sends, srvVars, removed>>

\* the delayed send fires: setTimeout(() => sendMessage(message), 100)
TimerFire(content) ==
    /\ BagIn(content, timers)
    /\ IdleSends /= {}
    /\ timers' = timers (-) SetToBag({content})
    /\ SendBegin(NextSend, content)
    /\ route' = route

\* variant: the send is marked as running before the session is created
SendCreateResolveKeepsSending(r) ==
    /\ r \in Pending /\ r.op = "create" /\ r.caller = "send"
    /\ net' = Take(r)
    /\ IF r.ok
       THEN /\ sessions' = CreatedSessions(r)
            /\ currentSessionId' = r.session.id
            /\ Provision(r.k, r.session.id, r.content, CreatedMessages(r), TRUE)
       ELSE /\ error' = NetErr
            /\ isSending' = TRUE
            /\ sends' = [sends EXCEPT ![r.k] = [IdleSend EXCEPT !.pc = "aborted"]]
            /\ UNCHANGED <<sessions, currentSessionId, msgVars, currentPhase>>
    /\ UNCHANGED <<isLoadingSessions, isLoadingMessages, isGeneratingTitle,
                   uiVars, titleTimers, srvVars, removed>>

\* sendMessage after `await createSession()`
SendCreateResolve(r) ==
    /\ r \in Pending /\ r.op = "create" /\ r.caller = "send"
    /\ net' = Take(r)
    /\ IF r.ok
       THEN /\ sessions' = CreatedSessions(r)
            /\ currentSessionId' = r.session.id
            /\ Provision(r.k, r.session.id, r.content, CreatedMessages(r), TRUE)
       ELSE /\ error' = NetErr
            /\ sends' = [sends EXCEPT ![r.k] = [IdleSend EXCEPT !.pc = "aborted"]]
            /\ UNCHANGED <<sessions, currentSessionId, msgVars, isSending,
                           currentPhase>>
    /\ UNCHANGED <<isLoadingSessions, isLoadingMessages, isGeneratingTitle,
                   uiVars, titleTimers, srvVars, removed>>

\* POST /chat/stream is answered with an OK response that has a body
StreamOpen(k) ==
    /\ sends[k].pc = "requesting"
    /\ sends' = [sends EXCEPT ![k].pc = "streaming"]
    /\ UNCHANGED srvVars
    /\ UNCHANGED <<storeVars, uiVars, titleTimers, net, removed>>

\* the catch block of sendMessage
Catch(k, message) ==
    /\ sessionMessages' =
           SetMsgs(sessionMessages, sends[k].sessionId,
                   RollbackMsgs(GetMsgs(sessionMessages, sends[k].sessionId)))
    /\ error' = message
    /\ isSending' = FALSE
    /\ currentPhase' = Null
    /\ sends' = [sends EXCEPT ![k] = [IdleSend EXCEPT !.pc = "failed", !.sessionId = sends[k].sessionId]]

\* the request fails, the response is not OK or has no body, or a read throws
StreamFail(k, message) ==
    /\ \/ sends[k].pc = "requesting" /\ message \in RequestErrs
       \/ sends[k].pc = "streaming" /\ message \in ReadErrs
    /\ Catch(k, message)
    /\ UNCHANGED <<sessions, currentSessionId, streamingContent,
                   isLoadingSessions, isLoadingMessages, isGeneratingTitle,
                   uiVars, titleTimers, net, srvVars, removed>>

\* variant: a phase frame starts the buffer anew
ApplyEventPhaseResets(k, ev) ==
    LET sid == sends[k].sessionId
        streamed == sends[k].streamedContent \o ev.chunk
    IN
    /\ sends' = [sends EXCEPT
                    ![k].frames = @ + 1,
                    ![k].streamedContent =
                        IF ev.event = "message" THEN streamed
                        ELSE IF ev.event = "phase" THEN "" ELSE @,
                    ![k].finalMessageId =
                        IF ev.event = "done" THEN ev.assistant_message_id ELSE @]
    /\ IF ev.event = "message"
       THEN /\ sessionMessages' =
                   SetMsgs(sessionMessages, sid,
                           ApplyMessage(GetMsgs(sessionMessages, sid), streamed))
            /\ streamingContent' = streamed
       ELSE UNCHANGED msgVars
    /\ currentPhase' = IF ev.event = "phase" THEN ev.phase ELSE currentPhase
    /\ error' = IF ev.event = "error" THEN ev.message ELSE error

\* variant: the handlers write the entry of the current session
ApplyEventOnCurrent(k, ev) ==
    LET sid == currentSessionId
        streamed == sends[k].streamedContent \o ev.chunk
    IN
    /\ sends' = [sends EXCEPT
                    ![k].frames = @ + 1,
                    ![k].streamedContent =
                        IF ev.event = "message" THEN streamed ELSE @,
                    ![k].finalMessageId =
                        IF ev.event = "done" THEN ev.assistant_message_id ELSE @]
    /\ IF ev.event = "message"
       THEN /\ sessionMessages' =
                   SetMsgs(sessionMessages, sid,
                           ApplyMessage(GetMsgs(sessionMessages, sid), streamed))
            /\ streamingContent' = streamed
       ELSE UNCHANGED msgVars
    /\ currentPhase' = IF ev.event = "phase" THEN ev.phase ELSE currentPhase
    /\ error' = IF ev.event = "error" THEN ev.message ELSE error

\* the body of the for loop over the lines of a chunk, for one frame
\* variant: the done handler accumulates the identifier (+= for =)
ApplyEventDoneAccumulates(k, ev) ==
    LET sid == sends[k].sessionId
        streamed == sends[k].streamedContent \o ev.chunk
    IN
    /\ sends' = [sends EXCEPT
                    ![k].frames = @ + 1,
                    ![k].streamedContent =
                        IF ev.event = "message" THEN streamed ELSE @,
                    ![k].finalMessageId =
                        IF ev.event = "done"
                        THEN IF @ = EmptyId THEN ev.assistant_message_id
                             ELSE @ \o ev.assistant_message_id
                        ELSE @]
    /\ IF ev.event = "message"
       THEN /\ sessionMessages' =
                   SetMsgs(sessionMessages, sid,
                           ApplyMessage(GetMsgs(sessionMessages, sid), streamed))
            /\ streamingContent' = streamed
       ELSE UNCHANGED msgVars
    /\ currentPhase' = IF ev.event = "phase" THEN ev.phase ELSE currentPhase
    /\ error' = IF ev.event = "error" THEN ev.message ELSE error

ApplyEvent(k, ev) ==
    LET sid == sends[k].sessionId
        streamed == sends[k].streamedContent \o ev.chunk
    IN
    /\ sends' = [sends EXCEPT
                    ![k].frames = @ + 1,
                    ![k].streamedContent =
                        IF ev.event = "message" THEN streamed ELSE @,
                    ![k].finalMessageId =
                        IF ev.event = "done" THEN ev.assistant_message_id ELSE @]
    /\ IF ev.event = "message"
       THEN /\ sessionMessages' =
                   SetMsgs(sessionMessages, sid,
                           ApplyMessage(GetMsgs(sessionMessages, sid), streamed))
            /\ streamingContent' = streamed
       ELSE UNCHANGED msgVars
    /\ currentPhase' = IF ev.event = "phase" THEN ev.phase ELSE currentPhase
    /\ error' = IF ev.event = "error" THEN ev.message ELSE error

\* variant: an error frame is thrown into the catch block
StreamEventErrorFatal(k, ev, max) ==
    /\ sends[k].pc = "streaming"
    /\ sends[k].frames < max
    /\ IF ev.event = "error"
       THEN Catch(k, ev.message) /\ UNCHANGED streamingContent
       ELSE ApplyEvent(k, ev) /\ UNCHANGED isSending
    /\ UNCHANGED <<sessions, currentSessionId, isLoadingSessions,
                   isLoadingMessages, isGeneratingTitle, uiVars, titleTimers,
                   net, srvVars, removed>>

\* reader.read() returns a chunk holding one frame; a stream carries at
\* most max frames
StreamEvent(k, ev, max) ==
    /\ sends[k].pc = "streaming"
    /\ sends[k].frames < max
    /\ ApplyEvent(k, ev)
    /\ UNCHANGED <<sessions, currentSessionId, flagVars, uiVars, titleTimers,
                   net, srvVars, removed>>

\* variant: the title generation is scheduled without the test of the length
StreamEndAlwaysTitle(k) ==
    LET sid == sends[k].sessionId
        finalized == SetMsgs(sessionMessages, sid,
                             FinalizeMsgs(GetMsgs(sessionMessages, sid),
                                          sends[k].finalMessageId))
    IN
    /\ sends[k].pc = "streaming"
    /\ sends' = [sends EXCEPT ![k] = [IdleSend EXCEPT !.pc = "completed", !.sessionId = sends[k].sessionId]]
    /\ sessionMessages' = finalized
    /\ isSending' = FALSE
    /\ currentPhase' = Null
    /\ titleTimers' = titleTimers (+) SetToBag({sid})
    /\ isLoadingSessions' = TRUE
    /\ error' = Null
    /\ \E r \in FetchAnswers : net' = Put(r)
    /\ UNCHANGED <<sessions, currentSessionId, streamingContent,
                   isLoadingMessages, isGeneratingTitle, uiVars, srvVars,
                   removed>>

\* reader.read() returns done: the message is finalized, the title
\* generation is scheduled for a first pair, and fetchSessions is called
StreamEnd(k) ==
    LET sid == sends[k].sessionId
        finalized == SetMsgs(sessionMessages, sid,
                             FinalizeMsgs(GetMsgs(sessionMessages, sid),
                                          sends[k].finalMessageId))
    IN
    /\ sends[k].pc = "streaming"
    /\ sends' = [sends EXCEPT ![k] = [IdleSend EXCEPT !.pc = "completed", !.sessionId = sends[k].sessionId]]
    /\ sessionMessages' = finalized
    /\ isSending' = FALSE
    /\ currentPhase' = Null
    /\ titleTimers' = IF Len(finalized[sid]) <= 2
                      THEN titleTimers (+) SetToBag({sid})
                      ELSE titleTimers
    /\ isLoadingSessions' = TRUE
    /\ error' = Null
    /\ \E r \in FetchAnswers : net' = Put(r)
    /\ UNCHANGED <<sessions, currentSessionId, streamingContent,
                   isLoadingMessages, isGeneratingTitle, uiVars, srvVars,
                   removed>>

(***************************************************************************)
(* generateSessionTitle.                                                   *)
(***************************************************************************)
\* the timer fires: generateSessionTitle up to its await
TitleStart(sid) ==
    /\ BagIn(sid, titleTimers)
    /\ titleTimers' = titleTimers (-) SetToBag({sid})
    /\ isGeneratingTitle' = TRUE
    /\ \E ok \in BOOLEAN :
          /\ ok => srv[sid].status = "active"
          /\ net' = Put([op |-> "title", id |-> sid, ok |-> ok,
                         title |-> "Generated", description |-> "About"])
          /\ srv' = IF ok THEN [srv EXCEPT ![sid].title = "Generated"] ELSE srv
    /\ UNCHANGED <<sessions, currentSessionId, msgVars, isLoadingSessions,
                   isLoadingMessages, isSending, currentPhase, error, uiVars,
                   sends, removed>>

\* variant: the catch block records the failure in the error slot
TitleResolveRecordsError(r) ==
    /\ r \in Pending /\ r.op = "title"
    /\ net' = Take(r)
    /\ sessions' = IF r.ok
                   THEN MergeInto(sessions, r.id,
                                  [title |-> r.title, description |-> r.description])
                   ELSE sessions
    /\ error' = IF r.ok THEN error ELSE NetErr
    /\ isGeneratingTitle' = FALSE
    /\ UNCHANGED <<currentSessionId, msgVars, isLoadingSessions,
                   isLoadingMessages, isSending, currentPhase, uiVars,
                   titleTimers, sends, srvVars, removed>>

\* generateSessionTitle after its await
TitleResolve(r) ==
    /\ r \in Pending /\ r.op = "title"
    /\ net' = Take(r)
    /\ sessions' = IF r.ok
                   THEN MergeInto(sessions, r.id,
                                  [title |-> r.title, description |-> r.description])
                   ELSE sessions
    /\ isGeneratingTitle' = FALSE
    /\ UNCHANGED <<currentSessionId, msgVars, isLoadingSessions,
                   isLoadingMessages, isSending, currentPhase, error, uiVars,
                   titleTimers, sends, srvVars, removed>>

(***************************************************************************)
(* The store specification: every operation, in every interleaving.        *)
(***************************************************************************)
Contents == {"hello"}

\* the server's sessions when the page is loaded
InitSrvs ==
    {[sid \in SessionIds |-> SrvAbsent],
     [sid \in SessionIds |->
         IF sid = 1
         THEN [status |-> "active", title |-> "New Chat", is_pinned |-> FALSE,
               updated_at |-> 1]
         ELSE SrvAbsent]}

\* the initial state of create(); persist restores currentSessionId only.
\* The page is loaded on /chat or on /chat/:sessionId of an existing session,
\* and ChatPage's effect is due when it mounts.
Init ==
    /\ srv \in InitSrvs
    /\ sessions = <<>>
    /\ currentSessionId \in {None} \cup {sid \in SessionIds : srv[sid].status = "active"}
    /\ sessionMessages = <<>>
    /\ isLoadingSessions = FALSE
    /\ isLoadingMessages = FALSE
    /\ isSending = FALSE
    /\ isGeneratingTitle = FALSE
    /\ streamingContent = ""
    /\ currentPhase = Null
    /\ error = Null
    /\ route \in {None} \cup {sid \in SessionIds : srv[sid].status = "active"}
    /\ timers = EmptyBag
    /\ titleTimers = EmptyBag
    /\ sends = [k \in SendIds |-> IdleSend]
    /\ net = EmptyBag
    /\ removed = {}
    /\ ops = 0
    /\ submits = 0
    /\ effectDirty = (route /= None)
    /\ logs = [k \in SendIds |-> <<>>]
    /\ wire = [k \in SendIds |-> NoWire]
    /\ auth = SignedIn
    /\ authDirty = FALSE

\* the effect of ChatPage is due again when one of its dependencies changed
Track ==
    effectDirty' = (\/ effectDirty
                    \/ route' /= route
                    \/ currentSessionId' /= currentSessionId)

\* a step of the user in the sidebar, who acts there at most max times
User(A, max) ==
    /\ ops < max /\ ops' = ops + 1 /\ submits' = submits
    /\ logs' = logs /\ wire' = wire
    /\ A /\ Track /\ UNCHANGED authVars

\* a step of the program: an answer arrives, a timer fires, a chunk is read
Auto(A) ==
    ops' = ops /\ submits' = submits /\ logs' = logs /\ wire' = wire /\ A /\ Track
    /\ UNCHANGED authVars

\* a submit of the user, who submits at most max times
Submit(A, max) ==
    /\ submits < max /\ submits' = submits + 1 /\ ops' = ops
    /\ logs' = logs /\ wire' = wire
    /\ A /\ Track /\ UNCHANGED authVars

\* the chat page: the route effect, handleSubmit and the sends it starts
PageNext(maxSubmits) ==
    \/ Auto(\E r \in Pending : FetchResolve(r))
    \/ EffectRun
    \/ Auto(\E r \in Pending : SelectResolve(r))
    \/ Auto(ClearError)
    \/ Submit(\E c \in Contents : SubmitSend(c), maxSubmits)
    \/ Submit(\E c \in Contents : SubmitCreateStart(c), maxSubmits)
    \/ Auto(\E r \in Pending : SubmitCreateResolve(r))
    \/ Auto(\E c \in Contents : TimerFire(c))
    \/ Auto(\E r \in Pending : SendCreateResolve(r))
    \/ Auto(\E k \in SendIds : StreamOpen(k))
    \/ Auto(\E k \in SendIds, m \in RequestErrs \cup ReadErrs : StreamFail(k, m))
    \/ Auto(\E k \in SendIds, ev \in StoreEvents : StreamEvent(k, ev, MaxEvents))
    \/ Auto(\E k \in SendIds : StreamEnd(k))

\* the chat page and the sidebar beside it
StoreNext(maxSubmits) ==
    \/ PageNext(maxSubmits)
    \/ User(\E sid \in SessionIds : DeleteStart(sid), MaxOps)
    \/ Auto(\E r \in Pending : DeleteResolve(r))
    \/ User(\E sid \in SessionIds : Navigate(sid), MaxOps)

\* the user submits up to MaxSends messages: turns may overlap
Next == StoreNext(MaxSends)

Spec == Init /\ [][Next]_vars

(***************************************************************************)
(* The turn specification: the store while the user submits MaxTurns       *)
(* messages.                                                               *)
(***************************************************************************)
TurnNext == StoreNext(MaxTurns)

TurnSpec == Init /\ [][TurnNext]_vars

(***************************************************************************)
(* The page specification: the chat page alone, while the user submits     *)
(* MaxTurns messages.                                                      *)
(***************************************************************************)
PageTurnNext == PageNext(MaxTurns)

PageSpec == Init /\ [][PageTurnNext]_vars

(***************************************************************************)
(* The registry specification: the operations on the session list.         *)
(***************************************************************************)
RegistryNext ==
    \/ User(FetchStart, MaxRegistryOps)
    \/ Auto(\E r \in Pending : FetchResolve(r))
    \/ User(NewChatStart, MaxRegistryOps)
    \/ Auto(\E r \in Pending : NewChatResolve(r))
    \/ User(\E sid \in SessionIds : DeleteStart(sid), MaxRegistryOps)
    \/ Auto(\E r \in Pending : DeleteResolve(r))
    \/ User(\E sid \in SessionIds : ArchiveStart(sid), MaxRegistryOps)
    \/ Auto(\E r \in Pending : ArchiveResolve(r))
    \/ User(\E sid \in SessionIds : PinStart(sid), MaxRegistryOps)
    \/ Auto(\E r \in Pending : PinResolve(r))
    \/ User(\E sid \in SessionIds : Navigate(sid), MaxRegistryOps)
    \/ EffectRun
    \/ Auto(\E r \in Pending : SelectResolve(r))
    \/ Auto(ClearError)

RegistrySpec == Init /\ [][RegistryNext]_vars

(***************************************************************************)
(* The stream specification: one turn on an open session, its frames drawn *)
(* from the protocol's four events.                                        *)
(***************************************************************************)
StreamEvents ==
    {MessageEvent("H"), MessageEvent("He"), MessageEvent("Hello"),
     PhaseEvent("responding"), DoneEvent(ServerId(42)), ErrorEvent("boom")}

\* the cache of the open session: what GET /sessions/{id} returned, or
\* what an earlier completed turn left (its user message keeps its
\* provisional identifier, its assistant message got the server's)
EarlierTurn ==
    FinalizeMsgs(
        ApplyMessage(<<UserMessage(0, "hello"), AssistantMessage(0)>>, "Hello"),
        ServerId(42))

PreSendLists == SrvMessageLists \cup {EarlierTurn}

\* session 1 is listed, selected and shown; its messages are loaded
StreamInit ==
    /\ srv = [sid \in SessionIds |->
                 IF sid = 1
                 THEN [status |-> "active", title |-> "New Chat",
                       is_pinned |-> FALSE, updated_at |-> 1]
                 ELSE SrvAbsent]
    /\ sessions = <<SrvSession(1)>>
    /\ currentSessionId = 1
    /\ \E ms \in PreSendLists : sessionMessages = SetMsgs(<<>>, 1, ms)
    /\ isLoadingSessions = FALSE
    /\ isLoadingMessages = FALSE
    /\ isSending = FALSE
    /\ isGeneratingTitle = FALSE
    /\ streamingContent = ""
    /\ currentPhase = Null
    /\ error = Null
    /\ route = 1
    /\ timers = EmptyBag
    /\ titleTimers = EmptyBag
    /\ sends = [k \in SendIds |-> IdleSend]
    /\ net = EmptyBag
    /\ removed = {}
    /\ ops = 0
    /\ submits = 0
    /\ effectDirty = FALSE
    /\ logs = [k \in SendIds |-> <<>>]
    /\ wire = [k \in SendIds |-> NoWire]
    /\ auth = SignedIn
    /\ authDirty = FALSE

\* the user submits one message
StreamSubmit(content) ==
    /\ \A k \in SendIds : sends[k].pc = "idle"
    /\ SubmitSend(content)

\* a frame of the stream is read and recorded
RecordedEvent(k, ev) ==
    /\ StreamEvent(k, ev, MaxStreamEvents)
    /\ logs' = [logs EXCEPT ![k] = Append(@, ev)]
    /\ ops' = ops /\ submits' = submits /\ wire' = wire /\ Track /\ UNCHANGED authVars

StreamNext ==
    \/ Auto(\E c \in Contents : StreamSubmit(c))
    \/ Auto(\E k \in SendIds : StreamOpen(k))
    \/ Auto(\E k \in SendIds, m \in RequestErrs \cup ReadErrs : StreamFail(k, m))
    \/ \E k \in SendIds, ev \in StreamEvents : RecordedEvent(k, ev)
    \/ Auto(\E k \in SendIds : StreamEnd(k))
    \/ Auto(\E r \in Pending : FetchResolve(r))
    \/ Auto(\E sid \in SessionIds : TitleStart(sid))
    \/ Auto(\E r \in Pending : TitleResolve(r))

StreamSpec == StreamInit /\ [][StreamNext]_vars

(***************************************************************************)
(* Properties.                                                             *)
(***************************************************************************)
\* the stream of send k is open: from the provisional pair to its end
Active(k) == sends[k].pc \in {"requesting", "streaming"}

\* send k takes its catch block in this step
Fails(k) == Active(k) /\ sends'[k].pc = "failed"

\* send k is finalized in this step
Completes(k) == sends[k].pc = "streaming" /\ sends'[k].pc = "completed"

\* the positions of the messages of ms that are streaming
StreamingAt(ms) == {i \in 1..Len(ms) : ms[i].isStreaming}

\* C1: when a send fails at the request or transport level, the cached
\* sequence of its session is, after the rollback, exactly the sequence the
\* session held immediately before the send.
C1_RollbackRestoresPreSend ==
    [][\A k \in SendIds :
          Fails(k) =>
              GetMsgs(sessionMessages', sends[k].sessionId) = sends[k].pre]_vars

\* C2: while the stream of a send is open, the cached sequence of its
\* session holds exactly one streaming message, and it is the last element.
C2_OneStreamingLastWhileActive ==
    \A k \in SendIds :
        Active(k) =>
            LET ms == GetMsgs(sessionMessages, sends[k].sessionId)
            IN  StreamingAt(ms) = {Len(ms)} /\ Len(ms) > 0

\* C3: in every state every cached sequence holds at most one streaming
\* message, and a streaming message is the last element of its sequence.
C3_AtMostOneStreamingLast ==
    \A sid \in DOMAIN sessionMessages :
        StreamingAt(sessionMessages[sid]) \subseteq {Len(sessionMessages[sid])}

\* C4: at most one stream is open per session: no two sends have their
\* provisional pair appended and their stream open on the same session.
C4_OneStreamPerSession ==
    \A j, k \in SendIds :
        (j /= k /\ Active(j) /\ Active(k)) =>
            sends[j].sessionId /= sends[k].sessionId

\* the cache entry of session sid is the same before and after the step
SameEntry(sid) ==
    /\ (sid \in DOMAIN sessionMessages') = (sid \in DOMAIN sessionMessages)
    /\ sid \in DOMAIN sessionMessages => sessionMessages'[sid] = sessionMessages[sid]

\* send k finds no current session and requests one
BeginsCreating(k) == sends[k].pc = "idle" /\ sends'[k].pc = "creating"

\* send k resumes after `await createSession()' with the created session
CreatesSession(k) == sends[k].pc = "creating" /\ sends'[k].pc = "requesting"

\* C5: a sendMessage invoked while no session is current creates exactly one
\* session, the provisional user message and the assistant placeholder are
\* the content of that session's cache entry, and no step of that send
\* changes the cache entry of another session or creates a further session.
C5_ImplicitSessionGetsThePair ==
    [][\A k \in SendIds :
          /\ BeginsCreating(k) =>
                /\ Cardinality({sid \in SessionIds : srv'[sid] /= srv[sid]}) <= 1
                /\ sessionMessages' = sessionMessages
          /\ CreatesSession(k) =>
                LET new == sends'[k].sessionId
                IN  /\ srv' = srv
                    /\ Len(sessions') = Len(sessions) + 1
                    /\ sessions'[1].id = new
                    /\ Tail(sessions') = sessions
                    /\ sessionMessages'[new] =
                           <<UserMessage(sends'[k].ts, sends[k].content),
                             AssistantMessage(sends'[k].ts)>>
                    /\ \A sid \in SessionIds \ {new} : SameEntry(sid)
          /\ (sends[k].created /\ sends'[k] /= sends[k]) =>
                /\ srv' = srv
                /\ sessions' = sessions
                /\ \A sid \in SessionIds \ {sends[k].sessionId} : SameEntry(sid)]_vars

\* a send that created its session is streaming while another session is cached
C5_Witness ==
    \E k \in SendIds :
        /\ sends[k].created
        /\ sends[k].pc = "streaming"
        /\ sends[k].frames > 0
        /\ DOMAIN sessionMessages \ {sends[k].sessionId} /= {}

\* send k leaves sendMessage in this step
Exits(k) ==
    /\ sends[k].pc \in {"creating", "requesting", "streaming"}
    /\ sends'[k].pc \in {"completed", "failed", "aborted"}

\* C7: isSending is false after every exit path of sendMessage (completion,
\* completion after an in-band error, thrown error, failed implicit session
\* creation), and after a thrown error the error slot is set.
C7_SendingClearedOnExit ==
    [][\A k \in SendIds :
          Exits(k) =>
              /\ ~isSending'
              /\ sends'[k].pc = "failed" => error' /= Null]_vars

\* C8: the session list never contains a session whose delete or archive
\* the store has already applied, whatever refreshes resolve afterwards.
C8_NoRemovedSessionListed == ListIds(sessions) \cap removed = {}

\* C9: the session list is always ordered with every pinned session before
\* every non-pinned one, and each block by descending updated_at.
C9_PinnedFirstThenRecent ==
    \A i, j \in 1..Len(sessions) :
        i < j =>
            /\ sessions[j].is_pinned => sessions[i].is_pinned
            /\ sessions[i].is_pinned = sessions[j].is_pinned =>
                   sessions[i].updated_at >= sessions[j].updated_at

\* the frames of the scenario, in arrival order
ScenarioLog ==
    <<MessageEvent("H"), MessageEvent("He"), MessageEvent("Hello"),
      PhaseEvent("responding"), DoneEvent(ServerId(42))>>

\* send k, "hello" on a session without messages, has received the frames of
\* the scenario and reads the end of the stream in this step
ScenarioEnds(k) ==
    /\ Completes(k)
    /\ sends[k].content = "hello"
    /\ sends[k].pre = <<>>
    /\ logs[k] = ScenarioLog

\* the two messages the scenario leaves, the assistant's with content c, and
\* one more scheduled title generation
ScenarioResult(k, c) ==
    LET sid == sends[k].sessionId
        ms == GetMsgs(sessionMessages', sid)
    IN  /\ Len(ms) = 2
        /\ ms[1].role = "user" /\ ms[1].content = "hello"
        /\ ms[2].role = "assistant" /\ ms[2].content = c
        /\ ms[2].id = ServerId(42) /\ ~ms[2].isStreaming
        /\ CopiesIn(sid, titleTimers') = CopiesIn(sid, titleTimers) + 1

\* C6 as stated: the scenario ends with the assistant content "Hello".
C6_ScenarioAsStated ==
    [][\A k \in SendIds : ScenarioEnds(k) => ScenarioResult(k, "Hello")]_vars

\* C6 (amended): sending "hello" on a session without messages, with the
\* message chunks "H", "He", "Hello", a phase event and a done event with id
\* m-42, ends with the user message "hello", the assistant message with the
\* concatenation "HHeHello" of the chunks, id m-42, not streaming, and a
\* scheduled title generation.
C6_ScenarioConcatenates ==
    [][\A k \in SendIds : ScenarioEnds(k) => ScenarioResult(k, "HHeHello")]_vars

\* the scenario has run to its end
C6_Witness ==
    \E k \in SendIds :
        /\ sends[k].pc = "completed"
        /\ logs[k] = ScenarioLog
        /\ LET ms == GetMsgs(sessionMessages, sends[k].sessionId)
           IN  /\ Len(ms) = 2
               /\ ms[2].content = "HHeHello"
               /\ ms[2].id = ServerId(42)
               /\ ~ms[2].isStreaming
        /\ BagIn(sends[k].sessionId, titleTimers)
        /\ currentPhase = Null

\* the frames of log without every done frame that repeats the done frame
\* received last before it
RECURSIVE DropRepeated(_, _)
DropRepeated(log, last) ==
    IF log = <<>> THEN <<>>
    ELSE IF Head(log).event = "done"
         THEN IF Head(log) = last
              THEN DropRepeated(Tail(log), last)
              ELSE <<Head(log)>> \o DropRepeated(Tail(log), Head(log))
         ELSE <<Head(log)>> \o DropRepeated(Tail(log), last)

DoneOnce(log) == DropRepeated(log, [event |-> "none"])

\* the chunks of the message frames of log, concatenated
RECURSIVE Chunks(_)
Chunks(log) ==
    IF log = <<>> THEN ""
    ELSE IF Head(log).event = "message"
         THEN Head(log).chunk \o Chunks(Tail(log))
         ELSE Chunks(Tail(log))

\* the identifier of the last done frame of log
LastDoneId(log) ==
    LET dones == SelectSeq(log, LAMBDA e : e.event = "done")
    IN  IF dones = <<>> THEN EmptyId
        ELSE dones[Len(dones)].assistant_message_id

\* the sequence a stream that received log leaves when nothing else touches
\* the session: the pre-send sequence, the user message, and the finalized
\* assistant message
Outcome(pre, ts, content, log) ==
    LET pair == pre \o <<UserMessage(ts, content), AssistantMessage(ts)>>
        hasMessage == \E i \in 1..Len(log) : log[i].event = "message"
    IN  FinalizeMsgs(IF hasMessage THEN ApplyMessage(pair, Chunks(log)) ELSE pair,
                     LastDoneId(log))

\* C10: completion is idempotent: a stream that received a done frame twice
\* ends with the message sequence of the stream that received it once.
C10_DoneTwiceAsOnce ==
    [][\A k \in SendIds :
          Completes(k) =>
              LET s == sends[k]
              IN  /\ GetMsgs(sessionMessages', s.sessionId)
                         = Outcome(s.pre, s.ts, s.content, logs[k])
                  /\ GetMsgs(sessionMessages', s.sessionId)
                         = Outcome(s.pre, s.ts, s.content, DoneOnce(logs[k]))]_vars

\* a stream that received the same done frame twice, and a message frame,
\* has ended
C10_Witness ==
    \E k \in SendIds :
        /\ sends[k].pc = "completed"
        /\ DoneOnce(logs[k]) /= logs[k]
        /\ \E i \in 1..Len(logs[k]) : logs[k][i].event = "message"
        /\ LET ms == GetMsgs(sessionMessages, sends[k].sessionId)
           IN  /\ Len(ms) >= 2
               /\ ms[Len(ms)].id = ServerId(42)
               /\ ~ms[Len(ms)].isStreaming

\* the content of the trailing message of sid's entry in sm when that
\* message is streaming, as a sequence of at most one string
TrailingContent(sm, sid) ==
    LET ms == GetMsgs(sm, sid)
    IN  IF Len(ms) > 0 /\ ms[Len(ms)].isStreaming
        THEN <<ms[Len(ms)].content>>
        ELSE <<>>

\* the strings made of at most n chunks of the store specification's frames
RECURSIVE ChunkStrings(_)
ChunkStrings(n) ==
    IF n = 0 THEN {""}
    ELSE LET shorter == ChunkStrings(n - 1)
         IN  shorter \cup
             {s \o e.chunk : s \in shorter,
                             e \in {x \in StoreEvents : x.event = "message"}}

\* old is a prefix of new
Extends(old, new) == \E s \in ChunkStrings(MaxEvents * MaxSends) : new = old \o s

\* send k applies a message frame in this step
AppliesMessage(k) ==
    /\ sends[k].pc = "streaming" /\ sends'[k].pc = "streaming"
    /\ sends'[k].frames = sends[k].frames + 1
    /\ sends'[k].streamedContent /= sends[k].streamedContent

\* C11: after a message frame of a stream the trailing streaming message of
\* its session holds the chunks the stream has received so far, and while
\* the stream is active that content only grows: each value is a prefix of
\* the next.
C11_ContentGrowsByExtension ==
    [][\A k \in SendIds :
          LET sid == sends[k].sessionId
              old == TrailingContent(sessionMessages, sid)
              new == TrailingContent(sessionMessages', sid)
          IN  /\ (AppliesMessage(k) /\ new /= <<>>) =>
                     new[1] = sends'[k].streamedContent
              /\ (Active(k) /\ Active(k)' /\ old /= <<>> /\ new /= <<>>) =>
                     Extends(old[1], new[1])]_vars

\* log holds an error frame
HasError(log) == \E i \in 1..Len(log) : log[i].event = "error"

\* send k reads a frame in this step, recorded as the last of logs'[k]
RecordsFrame(k) == Len(logs'[k]) = Len(logs[k]) + 1

LastFrame(k) == logs'[k][Len(logs'[k])]

\* C12: an error frame sets the error slot and nothing else: the stream
\* stays open, the provisional messages stay, the frames after it are
\* applied, and the stream is finalized as a stream without the error frame.
C12_ErrorFrameNotFatal ==
    [][\A k \in SendIds :
          LET sid == sends[k].sessionId
              s == sends[k]
          IN  /\ (RecordsFrame(k) /\ LastFrame(k).event = "error") =>
                     /\ error' = LastFrame(k).message
                     /\ sends'[k].pc = "streaming"
                     /\ sessionMessages' = sessionMessages
                     /\ isSending'
              /\ (RecordsFrame(k) /\ HasError(logs[k])) =>
                     /\ LastFrame(k).event = "message" =>
                            TrailingContent(sessionMessages', sid)
                                = <<Chunks(logs'[k])>>
                     /\ LastFrame(k).event = "phase" =>
                            currentPhase' = LastFrame(k).phase
                     /\ LastFrame(k).event = "done" =>
                            sends'[k].finalMessageId
                                = LastFrame(k).assistant_message_id
              /\ (Completes(k) /\ HasError(logs[k])) =>
                     /\ GetMsgs(sessionMessages', sid)
                            = Outcome(s.pre, s.ts, s.content, logs[k])
                     /\ ~isSending']_vars

\* a stream that read an error frame, then a message frame, then a done
\* frame, has been finalized with that content and identifier
C12_Witness ==
    \E k \in SendIds :
        /\ sends[k].pc = "completed"
        /\ \E i, j, l \in 1..Len(logs[k]) :
              /\ i < j /\ j < l
              /\ logs[k][i].event = "error"
              /\ logs[k][j].event = "message"
              /\ logs[k][l].event = "done"
        /\ LET ms == GetMsgs(sessionMessages, sends[k].sessionId)
           IN  /\ Len(ms) >= 2
               /\ ms[Len(ms)].content = Chunks(logs[k])
               /\ ms[Len(ms)].id = ServerId(42)
               /\ ~ms[Len(ms)].isStreaming

\* this step is clearError(): it changes the error slot and nothing else
ClearsError ==
    /\ error' = Null
    /\ UNCHANGED <<sessions, currentSessionId, sessionMessages,
                   isLoadingSessions, isLoadingMessages, isSending,
                   isGeneratingTitle, streamingContent, currentPhase, route,
                   timers, titleTimers, sends, net, srv, removed>>

\* C13: the error slot is last-write-wins: a recorded message leaves the
\* slot only when clearError is called or another message overwrites it.
C13_ErrorKeptUntilCleared ==
    [][(error /= Null /\ error' = Null) => ClearsError]_vars

\* C14: at the end of the stream the trailing streaming message loses its
\* streaming flag and takes the identifier of the last done frame when one
\* was read, else keeps its provisional identifier; its other fields and
\* every other message of the session are unchanged.
C14_FinalizeTrailingOnly ==
    [][\A k \in SendIds :
          Completes(k) =>
              LET old == GetMsgs(sessionMessages, sends[k].sessionId)
                  new == GetMsgs(sessionMessages', sends[k].sessionId)
                  n == Len(old)
                  doneId == LastDoneId(logs[k])
              IN  /\ Len(new) = n
                  /\ \A i \in 1..(n - 1) : new[i] = old[i]
                  /\ (n > 0 /\ old[n].isStreaming) =>
                        /\ ~new[n].isStreaming
                        /\ new[n].id = IF doneId /= EmptyId THEN doneId
                                       ELSE old[n].id
                        /\ new[n].content = old[n].content
                        /\ new[n].role = old[n].role
                        /\ new[n].created_at = old[n].created_at]_vars

\* a stream on a session that held an earlier turn has ended without a done
\* frame: the reply keeps its provisional identifier, the earlier turn and
\* the user message are as they were
C14_Witness ==
    \E k \in SendIds :
        /\ sends[k].pc = "completed"
        /\ LastDoneId(logs[k]) = EmptyId
        /\ \E i \in 1..Len(logs[k]) : logs[k][i].event = "message"
        /\ LET ms == GetMsgs(sessionMessages, sends[k].sessionId)
           IN  /\ Len(ms) = 4
               /\ SubSeq(ms, 1, 2) = EarlierTurn
               /\ ms[3].role = "user"
               /\ StartsWithTemp(ms[4].id)
               /\ ms[4].content = Chunks(logs[k])
               /\ ~ms[4].isStreaming

\* one more fetchSessions request is awaited after this step
IssuesFetch ==
    \E r \in BagToSet(net') : r.op = "fetch" /\ net' = net (+) SetToBag({r})

\* C15: a finalized stream schedules one title generation for its session
\* exactly when the session's cache then holds at most two messages, and
\* calls fetchSessions in any case; a send that ends in its catch block
\* does neither.
C15_TitleAndRefreshAfterFinalize ==
    [][\A k \in SendIds :
          LET sid == sends[k].sessionId
          IN  /\ Completes(k) =>
                    /\ titleTimers' =
                           IF Len(GetMsgs(sessionMessages', sid)) <= 2
                           THEN titleTimers (+) SetToBag({sid})
                           ELSE titleTimers
                    /\ IssuesFetch
                    /\ isLoadingSessions'
              /\ Fails(k) =>
                    /\ titleTimers' = titleTimers
                    /\ net' = net]_vars

\* a stream on a session that held an earlier turn has been finalized: four
\* messages, the list refresh is awaited, no title generation is scheduled
C15_Witness ==
    \E k \in SendIds :
        /\ sends[k].pc = "completed"
        /\ Len(GetMsgs(sessionMessages, sends[k].sessionId)) = 4
        /\ titleTimers = EmptyBag
        /\ ~isGeneratingTitle
        /\ \E r \in BagToSet(net) : r.op = "fetch"

(***************************************************************************)
(* The read loop of sendMessage over the bytes of the response body.      *)
(* A body is a sequence of tokens: the prefix of a frame, the two halves  *)
(* of a JSON payload, a line feed, and text that is no frame.  A read     *)
(* returns any non-empty run of the tokens that are left.                 *)
(***************************************************************************)
MaxWireLines == 3       \* lines a response body carries (decode specification)

DataPrefix == [t |-> "data: "]
LineFeed == [t |-> "\n"]
CommentText == [t |-> ": ping"]
BrokenJson == [t |-> "{oops"]

\* JSON.stringify of a frame, as two pieces of text
PayloadTokens(ev) == <<[t |-> "json-head", ev |-> ev], [t |-> "json-tail", ev |-> ev]>>

\* a frame on the wire: data: <json>\n
EncodeFrame(ev) == <<DataPrefix>> \o PayloadTokens(ev) \o <<LineFeed>>

\* lines on the wire that are not frames: a comment, a frame with a payload
\* that is not JSON
CommentLine == <<CommentText, LineFeed>>
BrokenLine == <<DataPrefix, BrokenJson, LineFeed>>

\* the frames and the lines a body of the decode specification is made of
WireEvents == {MessageEvent("H"), MessageEvent("He"), DoneEvent(ServerId(42))}
WireLines == {EncodeFrame(ev) : ev \in WireEvents} \cup {CommentLine, BrokenLine}

\* the bodies of at most n lines
RECURSIVE Bodies(_)
Bodies(n) ==
    IF n = 0 THEN {<<>>}
    ELSE Bodies(n - 1) \cup
         {line \o body : line \in WireLines, body \in Bodies(n - 1)}

\* chunk.split('\n'): the pieces between the line feeds, the empty ones too
RECURSIVE SplitLines(_)
SplitLines(chunk) ==
    IF \A i \in 1..Len(chunk) : chunk[i] /= LineFeed THEN <<chunk>>
    ELSE LET i == CHOOSE j \in 1..Len(chunk) :
                      /\ chunk[j] = LineFeed
                      /\ \A h \in 1..(j - 1) : chunk[h] /= LineFeed
         IN  <<SubSeq(chunk, 1, i - 1)>>
                 \o SplitLines(SubSeq(chunk, i + 1, Len(chunk)))

\* JSON.parse(text): the frame when text is the whole payload (<<>> when it throws)
ParseJson(text) ==
    IF /\ Len(text) = 2
       /\ text[1].t = "json-head" /\ text[2].t = "json-tail"
       /\ text[1].ev = text[2].ev
    THEN <<text[1].ev>>
    ELSE <<>>

\* line.startsWith('data: ')
StartsWithData(line) == Len(line) > 0 /\ line[1] = DataPrefix

\* the body of the for loop for one line: the frame it applies, if any
ParseLine(line) ==
    IF StartsWithData(line) THEN ParseJson(Tail(line)) ELSE <<>>

\* the frames the for loop applies for the lines of one chunk
RECURSIVE LinesEvents(_)
LinesEvents(lines) ==
    IF lines = <<>> THEN <<>>
    ELSE ParseLine(Head(lines)) \o LinesEvents(Tail(lines))

DecodeChunk(chunk) == LinesEvents(SplitLines(chunk))

\* the locals of sendMessage and the slots of the store the handlers write
\* one frame applied to them
ApplyTo(st, sid, ev) ==
    LET streamed == st.streamedContent \o ev.chunk
    IN  CASE ev.event = "message" ->
                 [st EXCEPT !.streamedContent = streamed,
                            !.sessionMessages =
                                SetMsgs(@, sid, ApplyMessage(GetMsgs(@, sid), streamed)),
                            !.streamingContent = streamed]
          [] ev.event = "phase" -> [st EXCEPT !.currentPhase = ev.phase]
          [] ev.event = "done" ->
                 [st EXCEPT !.finalMessageId = ev.assistant_message_id]
          [] ev.event = "error" -> [st EXCEPT !.error = ev.message]
          [] OTHER -> st

RECURSIVE ApplyAll(_, _, _)
ApplyAll(st, sid, evs) ==
    IF evs = <<>> THEN st
    ELSE ApplyAll(ApplyTo(st, sid, Head(evs)), sid, Tail(evs))

\* the frames of one chunk applied in order
ApplyFrames(k, evs) ==
    LET st == ApplyAll([streamedContent |-> sends[k].streamedContent,
                        finalMessageId |-> sends[k].finalMessageId,
                        sessionMessages |-> sessionMessages,
                        streamingContent |-> streamingContent,
                        currentPhase |-> currentPhase,
                        error |-> error],
                       sends[k].sessionId, evs)
    IN  /\ sends' = [sends EXCEPT ![k].streamedContent = st.streamedContent,
                                  ![k].finalMessageId = st.finalMessageId,
                                  ![k].frames = @ + Len(evs)]
        /\ sessionMessages' = st.sessionMessages
        /\ streamingContent' = st.streamingContent
        /\ currentPhase' = st.currentPhase
        /\ error' = st.error

\* the bodies a response of the decode specification carries
WireBodies == Bodies(MaxWireLines) \ {<<>>}

\* the response arrives: its body is one of the bodies
DecodeOpen(k) ==
    /\ StreamOpen(k)
    /\ \E body \in WireBodies :
          wire' = [wire EXCEPT ![k] = [rest |-> body, body |-> body]]
    /\ logs' = logs /\ ops' = ops /\ submits' = submits /\ Track /\ UNCHANGED authVars

\* variant: a payload that does not parse is thrown into the catch block
ReadChunkParseThrows(k, n) ==
    LET chunk == SubSeq(wire[k].rest, 1, n)
        lines == SplitLines(chunk)
    IN
    /\ sends[k].pc = "streaming"
    /\ n \in 1..Len(wire[k].rest)
    /\ wire' = [wire EXCEPT ![k].rest = SubSeq(@, n + 1, Len(@))]
    /\ IF \E i \in 1..Len(lines) :
              StartsWithData(lines[i]) /\ ParseJson(Tail(lines[i])) = <<>>
       THEN /\ Catch(k, "Unexpected token")
            /\ UNCHANGED streamingContent
            /\ logs' = logs
       ELSE /\ ApplyFrames(k, DecodeChunk(chunk))
            /\ logs' = [logs EXCEPT ![k] = @ \o DecodeChunk(chunk)]
            /\ UNCHANGED isSending
    /\ UNCHANGED <<sessions, currentSessionId, isLoadingSessions,
                   isLoadingMessages, isGeneratingTitle, uiVars, titleTimers,
                   net, srvVars, removed>>
    /\ ops' = ops /\ submits' = submits /\ Track /\ UNCHANGED authVars

\* one turn of the while loop: reader.read() returns the next n tokens of
\* the body, which are decoded, split into lines and applied
ReadChunk(k, n) ==
    LET chunk == SubSeq(wire[k].rest, 1, n)
    IN
    /\ sends[k].pc = "streaming"
    /\ n \in 1..Len(wire[k].rest)
    /\ wire' = [wire EXCEPT ![k].rest = SubSeq(@, n + 1, Len(@))]
    /\ ApplyFrames(k, DecodeChunk(chunk))
    /\ logs' = [logs EXCEPT ![k] = @ \o DecodeChunk(chunk)]
    /\ UNCHANGED <<sessions, currentSessionId, flagVars, uiVars, titleTimers,
                   net, srvVars, removed>>
    /\ ops' = ops /\ submits' = submits /\ Track /\ UNCHANGED authVars

\* reader.read() returns done once the body was read
DecodeEnd(k) ==
    /\ wire[k].rest = <<>>
    /\ StreamEnd(k)

DecodeNext ==
    \/ Auto(\E c \in Contents : StreamSubmit(c))
    \/ \E k \in SendIds : DecodeOpen(k)
    \/ \E k \in SendIds : \E n \in 1..Len(wire[k].rest) : ReadChunk(k, n)
    \/ Auto(\E k \in SendIds, m \in RequestErrs \cup ReadErrs : StreamFail(k, m))
    \/ Auto(\E k \in SendIds : DecodeEnd(k))
    \/ Auto(\E r \in Pending : FetchResolve(r))

DecodeSpec == StreamInit /\ [][DecodeNext]_vars

\* the frames the server wrote into a body
FramesSent(body) == DecodeChunk(body)

\* C16: the frames applied do not depend on how the body is cut into reads:
\* once a body was read to its end, the frames applied are the frames sent.
C16_ChunkingIndependent ==
    \A k \in SendIds :
        (wire[k].body /= <<>> /\ wire[k].rest = <<>>)
            => logs[k] = FramesSent(wire[k].body)

\* the tokens a step reads from the body of send k
Reads(k) ==
    /\ wire[k].body /= <<>> /\ wire'[k].body = wire[k].body
    /\ Len(wire'[k].rest) < Len(wire[k].rest)

ChunkRead(k) == SubSeq(wire[k].rest, 1, Len(wire[k].rest) - Len(wire'[k].rest))

\* chunks without a frame: lines that lack the prefix (a comment, the end of
\* a frame whose start was read before) and prefixed lines whose payload is
\* not JSON (broken text, the start of a frame whose end is not read yet)
JunkLines ==
    {CommentLine, BrokenLine}
        \cup {Tail(EncodeFrame(ev)) : ev \in WireEvents}
        \cup {<<DataPrefix, PayloadTokens(ev)[1]>> : ev \in WireEvents}
        \cup {<<DataPrefix, PayloadTokens(ev)[1], LineFeed>> : ev \in WireEvents}

JunkChunks == JunkLines \cup {a \o b : a \in {CommentLine, BrokenLine}, b \in JunkLines}

\* the chunk is lines without a frame and then the frame ev
EndsWithFrame(chunk, ev) ==
    /\ Len(chunk) > 4
    /\ SubSeq(chunk, Len(chunk) - 3, Len(chunk)) = EncodeFrame(ev)
    /\ SubSeq(chunk, 1, Len(chunk) - 4) \in JunkChunks

\* C17: a line that is no frame, or whose payload does not parse, changes
\* nothing: the messages, the phase, the error, the captured done identifier
\* and the buffer stay as they were, the send is not failed, and a frame
\* that follows it in the same read is applied.
C17_BadLinesSkipped ==
    [][\A k \in SendIds :
          Reads(k) =>
            /\ sends'[k].pc = "streaming"
            /\ isSending' = isSending
            /\ ChunkRead(k) \in JunkChunks =>
                  /\ sends' = sends
                  /\ logs' = logs
                  /\ UNCHANGED <<sessionMessages, streamingContent,
                                 currentPhase, error>>
            /\ \A ev \in WireEvents :
                  EndsWithFrame(ChunkRead(k), ev) =>
                     /\ logs'[k] = Append(logs[k], ev)
                     /\ ev.event = "message" =>
                           TrailingContent(sessionMessages', sends[k].sessionId)
                               = <<sends[k].streamedContent \o ev.chunk>>
                     /\ ev.event = "done" =>
                           sends'[k].finalMessageId = ev.assistant_message_id
      ]_vars

\* a comment and a broken frame were read, the frame after them was applied
C17_Witness ==
    \E k \in SendIds :
        /\ sends[k].pc = "streaming"
        /\ wire[k].body = CommentLine \o BrokenLine \o EncodeFrame(MessageEvent("H"))
        /\ wire[k].rest = <<>>
        /\ logs[k] = <<MessageEvent("H")>>
        /\ TrailingContent(sessionMessages, sends[k].sessionId) = <<"H">>
        /\ error = Null
        /\ isSending

\* the answer r of a call is handled by this step
Answered(r, op) == r.op = op /\ net' = Take(r)

\* C18: a fetchSessions that succeeds replaces the list by the list of the
\* answer, whatever it held; one that fails leaves the list as it was and
\* records the error; both clear isLoadingSessions and leave the current
\* session and the cache alone.
C18_FetchReplacesOrKeeps ==
    [][\A r \in Pending :
          Answered(r, "fetch") =>
            /\ sessions' = IF r.ok THEN r.sessions ELSE sessions
            /\ error' = IF r.ok THEN error ELSE NetErr
            /\ ~isLoadingSessions'
            /\ UNCHANGED <<currentSessionId, sessionMessages>>
      ]_vars

\* a list was loaded, then a call failed: the list is still there, the
\* error is recorded and nothing is loading
C18_Witness ==
    /\ ops = 2
    /\ sessions = <<SrvSession(1)>>
    /\ error = NetErr
    /\ ~isLoadingSessions
    /\ net = EmptyBag
    /\ currentSessionId = None /\ route = None
    /\ removed = {}
    /\ srv[1].status = "active" /\ ~srv[1].is_pinned

\* C19: a createSession that succeeds puts the session first in the list,
\* makes it current, gives it an empty cache entry and hands it to its
\* caller (the sidebar navigates to it); one that fails records the error,
\* throws to its caller (no navigation) and leaves the list, the current
\* session and the cache as they were.
C19_CreatePrependsOrKeeps ==
    [][\A r \in Pending :
          Answered(r, "create") =>
            IF r.ok
            THEN /\ Len(sessions') = Len(sessions) + 1
                 /\ sessions'[1] = r.session
                 /\ Tail(sessions') = sessions
                 /\ currentSessionId' = r.session.id
                 /\ r.session.id \in DOMAIN sessionMessages'
                 /\ sessionMessages'[r.session.id] = <<>>
                 /\ \A sid \in DOMAIN sessionMessages' \ {r.session.id} :
                       /\ sid \in DOMAIN sessionMessages
                       /\ sessionMessages'[sid] = sessionMessages[sid]
                 /\ DOMAIN sessionMessages \subseteq DOMAIN sessionMessages'
                 /\ route' = r.session.id
                 /\ error' = error
            ELSE /\ error' = NetErr
                 /\ UNCHANGED <<sessions, currentSessionId, sessionMessages,
                                route>>
      ]_vars

\* session 2 was created while session 1 was listed, open and cached
C19_Witness ==
    /\ Len(sessions) = 2
    /\ sessions[1].id = 2 /\ sessions[2].id = 1
    /\ currentSessionId = 2 /\ route = 2
    /\ DOMAIN sessionMessages = {1, 2}
    /\ sessionMessages[2] = <<>>
    /\ error = Null
    /\ net = EmptyBag

(***************************************************************************)
(* updateSession, and the specification of the calls that edit the list.  *)
(***************************************************************************)
\* the partial sessions a caller passes to updateSession
Patches == {[title |-> "Renamed"], [is_pinned |-> TRUE]}

\* PATCH /sessions/{id}: the server applies the fields, or the call fails
SrvPatched(sid, patch) ==
    [f \in DOMAIN srv[sid] |-> IF f \in DOMAIN patch THEN patch[f] ELSE srv[sid][f]]

\* ... and answers with the session, whole or only the fields that changed
UpdateAnswers(sid, patch) ==
    LET after == SrvPatched(sid, patch)
    IN  {[op |-> "update", id |-> sid, ok |-> FALSE, session |-> patch]}
        \cup
        (IF srv[sid].status = "active"
         THEN {[op |-> "update", id |-> sid, ok |-> TRUE,
                session |-> [id |-> sid, title |-> after.title,
                             is_pinned |-> after.is_pinned,
                             updated_at |-> after.updated_at]],
               [op |-> "update", id |-> sid, ok |-> TRUE, session |-> patch]}
         ELSE {})

\* variant: the fields are written into the list before the call is answered
UpdateStartOptimistic(sid, patch) ==
    /\ \E r \in UpdateAnswers(sid, patch) :
          /\ net' = Put(r)
          /\ srv' = IF r.ok THEN [srv EXCEPT ![sid] = SrvPatched(sid, patch)]
                    ELSE srv
    /\ sessions' = MergeInto(sessions, sid, patch)
    /\ UNCHANGED <<currentSessionId, msgVars, flagVars, currentPhase, error,
                   uiVars, titleTimers, sends, removed>>

\* updateSession(sessionId, data) up to its await
UpdateStart(sid, patch) ==
    /\ \E r \in UpdateAnswers(sid, patch) :
          /\ net' = Put(r)
          /\ srv' = IF r.ok THEN [srv EXCEPT ![sid] = SrvPatched(sid, patch)]
                    ELSE srv
    /\ UNCHANGED <<storeVars, uiVars, titleTimers, sends, removed>>

\* updateSession after its await
UpdateResolve(r) ==
    /\ r \in Pending /\ r.op = "update"
    /\ net' = Take(r)
    /\ IF r.ok
       THEN /\ sessions' = MergeInto(sessions, r.id, r.session)
            /\ error' = error
       ELSE /\ error' = NetErr
            /\ sessions' = sessions
    /\ UNCHANGED <<currentSessionId, msgVars, flagVars, currentPhase, uiVars,
                   titleTimers, sends, srvVars, removed>>

UpdateNext ==
    \/ User(FetchStart, MaxRegistryOps)
    \/ Auto(\E r \in Pending : FetchResolve(r))
    \/ User(NewChatStart, MaxRegistryOps)
    \/ Auto(\E r \in Pending : NewChatResolve(r))
    \/ User(\E sid \in SessionIds, patch \in Patches : UpdateStart(sid, patch),
            MaxRegistryOps)
    \/ Auto(\E r \in Pending : UpdateResolve(r))
    \/ EffectRun
    \/ Auto(\E r \in Pending : SelectResolve(r))

UpdateSpec == Init /\ [][UpdateNext]_vars

\* a call of updateSession is started by this step
StartsUpdate ==
    \E r \in BagToSet(net') : r.op = "update" /\ net' = Put(r)

\* C20: updateSession is not optimistic.  Starting it changes nothing in
\* the store.  When the patch succeeds the fields of the answer are merged
\* into the entry with that identifier and every other entry, and every
\* other field of that entry, stays; when it fails the error is recorded
\* and the list stays.  The current session and the cache stay either way.
C20_UpdateOnAnswerOnly ==
    [][/\ StartsUpdate => UNCHANGED storeVars
       /\ \A r \in Pending :
             Answered(r, "update") =>
               /\ UNCHANGED <<currentSessionId, sessionMessages>>
               /\ IF r.ok
                  THEN /\ Len(sessions') = Len(sessions)
                       /\ \A i \in 1..Len(sessions) :
                             IF sessions[i].id = r.id
                             THEN \A f \in DOMAIN sessions[i] :
                                     sessions'[i][f] =
                                         IF f \in DOMAIN r.session
                                         THEN r.session[f] ELSE sessions[i][f]
                             ELSE sessions'[i] = sessions[i]
                       /\ error' = error
                  ELSE /\ sessions' = sessions
                       /\ error' = NetErr
      ]_vars

\* session 1 was renamed by an answer that carried the title only; session
\* 2, created before, is listed first and untouched
C20_Witness ==
    /\ Len(sessions) = 2
    /\ sessions[1] = [id |-> 2, title |-> "New Chat", is_pinned |-> FALSE,
                      updated_at |-> 2]
    /\ sessions[2] = [id |-> 1, title |-> "Renamed", is_pinned |-> FALSE,
                      updated_at |-> 1]
    /\ srv[1].title = "Renamed"
    /\ net = EmptyBag
    /\ error = Null

\* a select of sid is answered, or a send provisions its pair on sid
TargetsAnew(sid) ==
    \/ \E r \in Pending : Answered(r, "select") /\ r.id = sid
    \/ \E k \in SendIds :
          /\ sends[k].pc \in {"idle", "creating"}
          /\ sends'[k].pc = "requesting"
          /\ sends'[k].sessionId = sid

\* every slot of the store but the error slot
NoErrorVars ==
    <<sessions, currentSessionId, sessionMessages, isLoadingSessions,
      isLoadingMessages, isSending, isGeneratingTitle, streamingContent,
      currentPhase>>

\* C21: a deleteSession that succeeds takes the session out of the list,
\* purges its cache entry and clears the current session if it was that
\* one; one that fails changes the error slot only.  The entry of a deleted
\* session stays purged until a select or a send targets the session anew,
\* also when a stream of that session was in flight.
C21_DeletePurges ==
    [][/\ \A r \in Pending :
             Answered(r, "delete") =>
               IF r.ok
               THEN /\ r.id \notin ListIds(sessions')
                    /\ r.id \notin DOMAIN sessionMessages'
                    /\ currentSessionId' =
                          IF currentSessionId = r.id THEN None
                          ELSE currentSessionId
               ELSE error' = NetErr /\ UNCHANGED NoErrorVars
       /\ \A sid \in SessionIds :
             (/\ srv[sid].status = "deleted" /\ sid \in removed
              /\ sid \notin DOMAIN sessionMessages
              /\ sid \in DOMAIN sessionMessages') => TargetsAnew(sid)
      ]_vars

\* C22: an archiveSession that succeeds takes the session out of the list
\* and clears the current session exactly when it was that one; one that
\* fails changes the error slot only.
C22_ArchiveRemoves ==
    [][\A r \in Pending :
          Answered(r, "archive") =>
            IF r.ok
            THEN /\ sessions' = SelectSeq(sessions, LAMBDA s : s.id /= r.id)
                 /\ r.id \notin ListIds(sessions')
                 /\ currentSessionId' =
                       IF currentSessionId = r.id THEN None
                       ELSE currentSessionId
                 /\ (currentSessionId' = None) =
                       (currentSessionId = r.id \/ currentSessionId = None)
            ELSE error' = NetErr /\ UNCHANGED NoErrorVars
      ]_vars

\* the open session 1 was archived: it is not listed, no session is
\* current, its cache entry is kept
C22_Witness ==
    /\ srv[1].status = "archived"
    /\ removed = {1}
    /\ 1 \notin ListIds(sessions)
    /\ currentSessionId = None
    /\ route = 1
    /\ 1 \in DOMAIN sessionMessages
    /\ error = Null
    /\ net = EmptyBag

\* C23: generateSessionTitle is best-effort.  When it succeeds the title
\* and the description of the answer are merged into the entry of that
\* session, every other field and entry stays; when it fails the list
\* stays.  Either way isGeneratingTitle is cleared and the error slot and
\* the rest of the store are as they were.
C23_TitleBestEffort ==
    [][\A r \in Pending :
          Answered(r, "title") =>
            /\ ~isGeneratingTitle'
            /\ UNCHANGED <<error, currentSessionId, sessionMessages,
                           streamingContent, isLoadingSessions,
                           isLoadingMessages, isSending, currentPhase>>
            /\ Len(sessions') = Len(sessions)
            /\ \A i \in 1..Len(sessions) :
                  IF r.ok /\ sessions[i].id = r.id
                  THEN /\ sessions'[i].title = r.title
                       /\ sessions'[i].description = r.description
                       /\ \A f \in DOMAIN sessions[i] \ {"title", "description"} :
                             sessions'[i][f] = sessions[i][f]
                  ELSE sessions'[i] = sessions[i]
      ]_vars

\* the title of session 1 was generated and merged, no error was recorded
C23_Witness ==
    /\ Len(sessions) = 1
    /\ sessions[1].id = 1
    /\ sessions[1].title = "Generated"
    /\ "description" \in DOMAIN sessions[1]
    /\ sessions[1].description = "About"
    /\ ~isGeneratingTitle
    /\ error = Null
    /\ titleTimers = EmptyBag

(***************************************************************************)
(* exportSession, called by Sidebar.handleExport.                          *)
(***************************************************************************)
\* exportSession up to its await: GET /sessions/{id}/export
ExportStart(sid) ==
    /\ sid \in Shown
    /\ \E ok \in BOOLEAN :
          /\ ok => srv[sid].status \in {"active", "archived"}
          /\ net' = Put([op |-> "export", id |-> sid, ok |-> ok])
    /\ UNCHANGED <<storeVars, uiVars, titleTimers, sends, srvVars, removed>>

\* exportSession after its await: the data is returned to handleExport,
\* which saves it as a file; a failure is recorded and thrown again
ExportResolve(r) ==
    /\ r \in Pending /\ r.op = "export"
    /\ net' = Take(r)
    /\ error' = IF r.ok THEN error ELSE NetErr
    /\ UNCHANGED <<sessions, currentSessionId, msgVars, flagVars,
                   currentPhase, uiVars, titleTimers, sends, srvVars, removed>>

ExportNext ==
    \/ User(FetchStart, MaxRegistryOps)
    \/ Auto(\E r \in Pending : FetchResolve(r))
    \/ User(\E sid \in SessionIds : ExportStart(sid), MaxRegistryOps)
    \/ Auto(\E r \in Pending : ExportResolve(r))
    \/ EffectRun
    \/ Auto(\E r \in Pending : SelectResolve(r))
    \/ Auto(ClearError)

ExportSpec == Init /\ [][ExportNext]_vars

\* a call of exportSession is started by this step
StartsExport ==
    \E r \in BagToSet(net') : r.op = "export" /\ net' = Put(r)

\* C24: exportSession is a pure read: neither starting it nor its answer,
\* a success or a failure, changes a slot of the store.
C24_ExportPureRead ==
    [][/\ StartsExport => UNCHANGED storeVars
       /\ \A r \in Pending : Answered(r, "export") => UNCHANGED storeVars
      ]_vars

\* a call of selectSession(sid) is started by this step
StartsSelect(sid) ==
    \E r \in BagToSet(net') : r.op = "select" /\ r.id = sid /\ net' = Put(r)

\* C25: selectSession of a session with a cache entry makes it current at
\* once, while the request is in flight and the cache as it was; when the
\* answer arrives its messages replace the entry of that session and its
\* metadata is merged into the list entry of that session, and every other
\* cache entry and list entry stays.
C25_CachedSelectThenRefresh ==
    [][/\ \A sid \in DOMAIN sessionMessages :
             StartsSelect(sid) =>
                /\ currentSessionId' = sid
                /\ UNCHANGED <<sessionMessages, sessions>>
       /\ \A r \in Pending :
             (Answered(r, "select") /\ r.ok) =>
                /\ DOMAIN sessionMessages' = DOMAIN sessionMessages \cup {r.id}
                /\ sessionMessages'[r.id] = r.messages
                /\ \A sid \in DOMAIN sessionMessages \ {r.id} :
                      sessionMessages'[sid] = sessionMessages[sid]
                /\ Len(sessions') = Len(sessions)
                /\ \A i \in 1..Len(sessions) :
                      IF sessions[i].id = r.id
                      THEN \A f \in DOMAIN sessions[i] :
                              sessions'[i][f] =
                                  IF f \in DOMAIN r.session
                                  THEN r.session[f] ELSE sessions[i][f]
                      ELSE sessions'[i] = sessions[i]
      ]_vars

\* session 1, loaded before, was selected again while session 2 was open:
\* it is current although its refresh is still in flight
C25_Witness ==
    /\ DOMAIN sessionMessages = {1, 2}
    /\ Len(sessionMessages[1]) = 2
    /\ currentSessionId = 1 /\ route = 1
    /\ isLoadingMessages
    /\ \E r \in Pending : r.op = "select" /\ r.id = 1 /\ net = SetToBag({r})
    /\ ListIds(sessions) = {1, 2}

\* C26: a refresh is applied by key: when the answer of a select of
\* session A arrives after the user has switched to session B (the page
\* shows B and B is current), the entry of A is replaced and the current
\* session remains B.
C26_RefreshAppliedByKey ==
    [][\A r \in Pending :
          (/\ Answered(r, "select") /\ r.ok
           /\ route /= None /\ route /= r.id
           /\ currentSessionId = route) =>
             /\ sessionMessages'[r.id] = r.messages
             /\ currentSessionId' = currentSessionId
      ]_vars

(***************************************************************************)
(* The keyed specification: one turn on session 1 while the user works on  *)
(* the other session in the sidebar.                                       *)
(***************************************************************************)
\* sessions 1 and 2 are listed and cached, session 1 is selected and shown
KeyedInit ==
    /\ srv = [sid \in SessionIds |->
                 IF sid \in {1, 2}
                 THEN [status |-> "active", title |-> "New Chat",
                       is_pinned |-> FALSE, updated_at |-> sid]
                 ELSE SrvAbsent]
    /\ sessions = <<SrvSession(2), SrvSession(1)>>
    /\ currentSessionId = 1
    /\ \E ms \in SrvMessageLists :
          sessionMessages = SetMsgs(SetMsgs(<<>>, 1, ms), 2, <<>>)
    /\ isLoadingSessions = FALSE
    /\ isLoadingMessages = FALSE
    /\ isSending = FALSE
    /\ isGeneratingTitle = FALSE
    /\ streamingContent = ""
    /\ currentPhase = Null
    /\ error = Null
    /\ route = 1
    /\ timers = EmptyBag
    /\ titleTimers = EmptyBag
    /\ sends = [k \in SendIds |-> IdleSend]
    /\ net = EmptyBag
    /\ removed = {}
    /\ ops = 0
    /\ submits = 0
    /\ effectDirty = FALSE
    /\ logs = [k \in SendIds |-> <<>>]
    /\ wire = [k \in SendIds |-> NoWire]
    /\ auth = SignedIn
    /\ authDirty = FALSE

KeyedNext ==
    \/ Auto(\E c \in Contents : StreamSubmit(c))
    \/ Auto(\E k \in SendIds : StreamOpen(k))
    \/ Auto(\E k \in SendIds, m \in RequestErrs \cup ReadErrs : StreamFail(k, m))
    \/ Auto(\E k \in SendIds, ev \in StoreEvents : StreamEvent(k, ev, MaxEvents))
    \/ Auto(\E k \in SendIds : StreamEnd(k))
    \/ Auto(\E r \in Pending : FetchResolve(r))
    \/ User(\E sid \in SessionIds : Navigate(sid), MaxKeyedOps)
    \/ EffectRun
    \/ Auto(\E r \in Pending : SelectResolve(r))
    \/ User(\E sid \in SessionIds : DeleteStart(sid), MaxKeyedOps)
    \/ Auto(\E r \in Pending : DeleteResolve(r))

KeyedSpec == KeyedInit /\ [][KeyedNext]_vars

\* the cache entries of the sessions other than sid are left as they were
OnlyEntry(sid) == \A o \in SessionIds \ {sid} : SameEntry(o)

\* a step of the stream of send k: a frame, the end, a failure
StreamStep(k) ==
    /\ sends[k].pc \in {"requesting", "streaming"}
    /\ sends'[k] /= sends[k]

\* C27: the stream of a send writes the cache entry of the session the send
\* started on and no other, whichever session is current; the answer of a
\* fetchSessions changes no cache entry, and the answer of a delete or a
\* select of another session leaves the entry of that session as it was.
C27_StreamKeyedBySession ==
    [][\A k \in SendIds :
          LET sid == sends[k].sessionId IN
          /\ StreamStep(k) => OnlyEntry(sid)
          /\ (StreamStep(k) /\ sends'[k].streamedContent /= sends[k].streamedContent)
                => TrailingContent(sessionMessages', sid)
                       \in {<<>>, <<sends'[k].streamedContent>>}
          /\ Active(k) =>
               \A r \in Pending :
                  (\/ Answered(r, "fetch")
                   \/ (Answered(r, "delete") /\ r.id /= sid)
                   \/ (Answered(r, "select") /\ r.id /= sid))
                     => SameEntry(sid)
      ]_vars

\* the user switched to session 2 while the stream of session 1 went on:
\* the content is in the entry of session 1, the entry of session 2 is
\* what its select loaded
C27_Witness ==
    \E k \in SendIds :
        /\ sends[k].pc = "streaming" /\ sends[k].sessionId = 1
        /\ sends[k].streamedContent = "Hi"
        /\ currentSessionId = 2 /\ route = 2
        /\ TrailingContent(sessionMessages, 1) = <<"Hi">>
        /\ 2 \in DOMAIN sessionMessages
        /\ StreamingAt(sessionMessages[2]) = {}

(***************************************************************************)
(* Termination of a send.  The transport answers the request, and an open  *)
(* stream ends or throws: these steps are taken when they stay possible.   *)
(***************************************************************************)
\* the steps by which the transport moves send k on to its end
TransportStep(k) ==
    \/ Auto(StreamOpen(k))
    \/ Auto(\E m \in RequestErrs \cup ReadErrs : StreamFail(k, m))
    \/ Auto(StreamEnd(k))

FairSpec == Spec /\ \A k \in SendIds : WF_vars(TransportStep(k))

\* the placeholder of send k is in a cache entry and still streaming
PlaceholderStreaming(k) ==
    \E sid \in DOMAIN sessionMessages :
        \E i \in 1..Len(sessionMessages[sid]) :
            /\ sessionMessages[sid][i].id = TempAssistantId(k)
            /\ sessionMessages[sid][i].isStreaming

\* send k is over, nothing is being sent and its placeholder is finalized
\* or removed
Settled(k) ==
    /\ sends[k].pc \in {"completed", "failed"}
    /\ ~isSending
    /\ ~PlaceholderStreaming(k)

\* C28: every send that appended its provisional messages ends as
\* completed or failed, in a state where isSending is false and its
\* placeholder is finalized or removed.
C28_SendSettles ==
    \A k \in SendIds : (sends[k].pc = "requesting") ~> Settled(k)

\* the frames of log that are not phase frames
NoPhase(log) == SelectSeq(log, LAMBDA e : e.event /= "phase")

\* the message of the last error frame of log
LastError(log) ==
    LET errors == SelectSeq(log, LAMBDA e : e.event = "error")
    IN  IF errors = <<>> THEN Null ELSE errors[Len(errors)].message

\* C29: the phase is display metadata.  A phase frame changes currentPhase
\* and nothing else; and what a stream leaves (the buffer, the captured
\* identifier, the error slot, the messages it finalizes) is what the same
\* stream without its phase frames leaves.
C29_PhaseIsDisplayOnly ==
    [][\A k \in SendIds :
          LET sid == sends[k].sessionId
              s == sends[k]
          IN  /\ (RecordsFrame(k) /\ LastFrame(k).event = "phase") =>
                     /\ currentPhase' = LastFrame(k).phase
                     /\ UNCHANGED <<sessions, currentSessionId, sessionMessages,
                                    streamingContent, flagVars, error,
                                    titleTimers, net>>
                     /\ sends' = [sends EXCEPT ![k].frames = @ + 1]
              /\ RecordsFrame(k) =>
                     /\ sends'[k].streamedContent = Chunks(NoPhase(logs'[k]))
                     /\ sends'[k].finalMessageId = LastDoneId(NoPhase(logs'[k]))
                     /\ error' = LastError(NoPhase(logs'[k]))
                     /\ isSending'
              /\ Completes(k) =>
                     /\ GetMsgs(sessionMessages', sid)
                            = Outcome(s.pre, s.ts, s.content, NoPhase(logs[k]))
                     /\ ~isSending'
                     /\ titleTimers' =
                            IF Len(Outcome(s.pre, s.ts, s.content,
                                           NoPhase(logs[k]))) <= 2
                            THEN titleTimers (+) SetToBag({sid})
                            ELSE titleTimers
      ]_vars

\* a stream read a phase frame between two message frames and was
\* finalized with the content of the two
C29_Witness ==
    \E k \in SendIds :
        /\ sends[k].pc = "completed"
        /\ logs[k] = <<MessageEvent("H"), PhaseEvent("responding"),
                       MessageEvent("He")>>
        /\ LET ms == GetMsgs(sessionMessages, sends[k].sessionId)
           IN  /\ Len(ms) >= 2
               /\ ms[Len(ms)].content = "HHe"
               /\ ~ms[Len(ms)].isStreaming
        /\ currentPhase = Null

\* the createSession of send k has failed
Aborted(k) == sends[k].pc = "aborted"

\* C30: when the createSession of a sendMessage without a current session
\* fails, nothing of the send is applied: no cache entry changes, no
\* request is issued, isSending is not set, no session becomes current, and
\* the error of the creation is in the error slot; the send never issues
\* its stream request afterwards.
C30_FailedCreationLeavesNothing ==
    [][/\ \A r \in Pending :
             (Answered(r, "create") /\ r.caller = "send" /\ ~r.ok) =>
                /\ error' = NetErr
                /\ UNCHANGED <<sessions, currentSessionId, sessionMessages,
                               streamingContent, isSending, currentPhase,
                               timers, titleTimers>>
                /\ (\A k \in SendIds : ~Active(k)) => ~isSending'
                /\ Aborted(r.k)'
                /\ \A k \in SendIds \ {r.k} : sends'[k] = sends[k]
       /\ \A k \in SendIds : Aborted(k) => Aborted(k)'
      ]_vars

\* the creation failed: no session, no cache entry, nothing in flight,
\* nothing being sent, the error recorded
C30_Witness ==
    \E k \in SendIds :
        /\ Aborted(k)
        /\ error = NetErr
        /\ ~isSending
        /\ currentSessionId = None
        /\ sessionMessages = <<>>
        /\ sessions = <<>>
        /\ net = EmptyBag

\* C31: selectSession makes the session current at its start when the
\* session is cached and leaves the current session alone otherwise; when
\* its request fails the error is recorded, isLoadingMessages is cleared,
\* and the cache, the list and the current session are as they were.
C31_SelectFailureKeepsState ==
    [][/\ \A sid \in SessionIds :
             StartsSelect(sid) =>
                currentSessionId' = IF sid \in DOMAIN sessionMessages
                                    THEN sid ELSE currentSessionId
       /\ \A r \in Pending :
             (Answered(r, "select") /\ ~r.ok) =>
                /\ error' = NetErr
                /\ ~isLoadingMessages'
                /\ UNCHANGED <<sessionMessages, sessions, currentSessionId>>
      ]_vars

\* the page was loaded on /chat/1 and the select of session 1 failed:
\* nothing is cached or current, the error is recorded, nothing is loading
C31_Witness ==
    /\ ops = 0
    /\ route = 1
    /\ currentSessionId = None
    /\ sessionMessages = <<>>
    /\ error = NetErr
    /\ ~isLoadingMessages
    /\ net = EmptyBag
    /\ ~effectDirty

\* C32: a message frame changes only the content of the trailing streaming
\* message of the session of its send: the sequence keeps its length and
\* its order, every other message is as it was, no other entry changes;
\* and when the last element is not a streaming message, no message changes.
C32_MessageFrameTouchesTrailingOnly ==
    [][\A k \in SendIds :
          AppliesMessage(k) =>
             LET sid == sends[k].sessionId
                 old == GetMsgs(sessionMessages, sid)
                 new == GetMsgs(sessionMessages', sid)
                 n   == Len(old)
             IN  /\ OnlyEntry(sid)
                 /\ Len(new) = n
                 /\ \A i \in 1..(n - 1) : new[i] = old[i]
                 /\ IF n > 0 /\ old[n].isStreaming
                    THEN new[n] = [old[n] EXCEPT
                                      !.content = sends'[k].streamedContent]
                    ELSE new = old
      ]_vars

\* the entry of session 1 was reloaded while its stream went on: the frame
\* that followed found a last message that is not streaming and changed none
C32_Witness ==
    \E k \in SendIds :
        /\ sends[k].pc = "streaming" /\ sends[k].sessionId = 1
        /\ sends[k].streamedContent = "Hi"
        /\ 1 \in DOMAIN sessionMessages
        /\ Len(sessionMessages[1]) = 2
        /\ StreamingAt(sessionMessages[1]) = {}
        /\ sessionMessages[1][2].content = "Hello"

\* the sends that appended their provisional messages to session sid
SendsOn(sid) ==
    {k \in SendIds : sends[k].sessionId = sid
                     /\ sends[k].pc \notin {"idle", "creating", "aborted"}}

\* C33: once every send started on a session has ended, completed or
\* failed, no message of the cached sequence of that session is streaming.
C33_NoStreamingAfterSends ==
    \A sid \in SessionIds :
        (/\ SendsOn(sid) /= {}
         /\ \A k \in SendsOn(sid) : sends[k].pc \in {"completed", "failed"})
           => StreamingAt(GetMsgs(sessionMessages, sid)) = {}

\* a sendMessage call begins in this step, as send k
Begins(k) == sends[k].pc = "idle" /\ sends'[k].pc /= "idle"

\* C34: a message submitted while the route shows a session is sent to that
\* session: the send appends its provisional messages to the entry of the
\* session of the route and its request carries that session, also while
\* the selectSession of the route is still loading and within the delay
\* after a session was created.
C34_SubmitGoesToRouteSession ==
    [][\A k \in SendIds :
          (Begins(k) /\ route /= None) =>
             /\ sends'[k].pc = "requesting"
             /\ sends'[k].sessionId = route
             /\ ~SameEntry(route)
      ]_vars

\* C35: in every reachable state the current session is none or a session
\* of the session list.
C35_CurrentSessionListed ==
    currentSessionId = None \/ currentSessionId \in ListIds(sessions)

\* C36: in every reachable state a phase is shown only while a send is
\* running: currentPhase is not null only when isSending is true.
C36_PhaseOnlyWhileSending ==
    currentPhase /= Null => isSending

\* a request of the given operation is outstanding
Outstanding(op) == \E r \in Pending : r.op = op

\* C37: each loading flag is true exactly while a request of its concern is
\* outstanding: isLoadingSessions while a fetchSessions is in flight and
\* isLoadingMessages while a selectSession is in flight, also when two such
\* calls overlap.
C37_LoadingFlagsFollowRequests ==
    /\ isLoadingSessions = Outstanding("fetch")
    /\ isLoadingMessages = Outstanding("select")

(***************************************************************************)
(* The auth store, its callers (LoginPage, RegisterPage, Sidebar and the   *)
(* effect of AppContent) and the routes that depend on it.                 *)
(***************************************************************************)
chatVars == <<storeVars, uiVars, titleTimers, sends, srvVars, removed>>

\* AppContent's effect has isAuthenticated among its dependencies: it is
\* due after a render in which isAuthenticated became true
AuthTrack ==
    authDirty' = (authDirty \/ (auth'.isAuthenticated /\ ~auth.isAuthenticated))

\* a step of the user on the login or register page or in the sidebar
AuthUser(A) ==
    /\ ops < MaxAuthOps /\ ops' = ops + 1 /\ submits' = submits
    /\ logs' = logs /\ wire' = wire
    /\ A /\ Track /\ AuthTrack

\* an answer to a request of the auth store arrives
AuthAuto(A) ==
    /\ ops' = ops /\ submits' = submits /\ logs' = logs /\ wire' = wire
    /\ A /\ Track /\ AuthTrack

\* variant: logout keeps the user
LogoutKeepsUser(a) ==
    [a EXCEPT !.accessToken = NoToken, !.refreshToken = NoToken,
              !.isAuthenticated = FALSE, !.error = Null]

\* logout: set({ user: null, accessToken: null, refreshToken: null,
\*               isAuthenticated: false, error: null })
Logout(a) ==
    [a EXCEPT !.user = NoUser, !.accessToken = NoToken,
              !.refreshToken = NoToken, !.isAuthenticated = FALSE,
              !.error = Null]

\* the catch block of login, and of register around it:
\* set({ error: message, isLoading: false }) with the default message
LoginCatch(a, via) ==
    [a EXCEPT !.error = IF via = "register" THEN "Registration failed"
                        ELSE "Login failed",
              !.isLoading = FALSE]

\* POST /auth/login: refused, or answered with a pair of tokens
LoginAnswers(via) ==
    {[op |-> "login", via |-> via, ok |-> FALSE, gen |-> 0]}
    \cup {[op |-> "login", via |-> via, ok |-> TRUE, gen |-> n] : n \in 1..MaxTokens}

\* POST /auth/refresh with the refresh token of the store
RefreshAnswers(token) ==
    {[op |-> "refresh", refresh_token |-> token, ok |-> FALSE, gen |-> 0]}
    \cup {[op |-> "refresh", refresh_token |-> token, ok |-> TRUE, gen |-> n] :
             n \in 1..MaxTokens}

\* GET /auth/me with a bearer token
MeAnswers(caller, via, token) ==
    {[op |-> "me", caller |-> caller, via |-> via, token |-> token, ok |-> ok] :
        ok \in BOOLEAN}

\* LoginPage.handleSubmit: login(username, password) up to its first await;
\* the page is shown by PublicRoute, its button is disabled while isLoading
LoginStart ==
    /\ ~auth.isAuthenticated /\ ~auth.isLoading
    /\ auth' = [auth EXCEPT !.isLoading = TRUE, !.error = Null]
    /\ \E r \in LoginAnswers("page") : net' = Put(r)
    /\ UNCHANGED chatVars

\* login after the answer to its credentials: the tokens are set first,
\* then the user is requested; a refusal goes to the catch block
LoginTokens(r) ==
    /\ r \in Pending /\ r.op = "login"
    /\ IF r.ok
       THEN /\ auth' = [auth EXCEPT !.accessToken = AccessToken(r.gen),
                                    !.refreshToken = RefreshToken(r.gen),
                                    !.isAuthenticated = TRUE]
            /\ \E q \in MeAnswers("login", r.via, AccessToken(r.gen)) :
                  net' = Take(r) (+) SetToBag({q})
       ELSE /\ auth' = LoginCatch(auth, r.via)
            /\ net' = Take(r)
    /\ UNCHANGED chatVars

\* login after the answer to its request for the user
LoginUser(r) ==
    /\ r \in Pending /\ r.op = "me" /\ r.caller = "login"
    /\ net' = Take(r)
    /\ auth' = IF r.ok
               THEN [auth EXCEPT !.user = Account, !.isLoading = FALSE]
               ELSE LoginCatch(auth, r.via)
    /\ UNCHANGED chatVars

\* RegisterPage: register(...) up to its await
RegisterStart ==
    /\ ~auth.isAuthenticated /\ ~auth.isLoading
    /\ auth' = [auth EXCEPT !.isLoading = TRUE, !.error = Null]
    /\ \E ok \in BOOLEAN : net' = Put([op |-> "register", ok |-> ok])
    /\ UNCHANGED chatVars

\* register after its await: await get().login(username, password)
RegisterResolve(r) ==
    /\ r \in Pending /\ r.op = "register"
    /\ IF r.ok
       THEN /\ auth' = [auth EXCEPT !.isLoading = TRUE, !.error = Null]
            /\ \E q \in LoginAnswers("register") :
                  net' = Take(r) (+) SetToBag({q})
       ELSE /\ auth' = LoginCatch(auth, "register")
            /\ net' = Take(r)
    /\ UNCHANGED chatVars

\* Sidebar.handleLogout: logout(); navigate('/login')
LogoutClick ==
    /\ auth.isAuthenticated
    /\ auth' = Logout(auth)
    /\ route' = None
    /\ UNCHANGED <<storeVars, timers, titleTimers, sends, net, srvVars, removed>>

\* fetchUser up to its await: if (!accessToken) return
FetchUserRequests(a) ==
    IF a.accessToken = NoToken THEN {EmptyBag}
    ELSE {SetToBag({q}) : q \in MeAnswers("fetchUser", "page", a.accessToken)}

\* AppContent's effect, with the isAuthenticated of its render:
\* fetchUser(); fetchSessions()
AuthEffectRun ==
    /\ authDirty
    /\ authDirty' = FALSE
    /\ auth' = auth
    /\ isLoadingSessions' = TRUE
    /\ error' = Null
    /\ \E f \in FetchAnswers, u \in FetchUserRequests(auth) :
          net' = Put(f) (+) u
    /\ UNCHANGED <<sessions, currentSessionId, msgVars, isLoadingMessages,
                   isSending, isGeneratingTitle, currentPhase, uiVars,
                   titleTimers, sends, srvVars, removed>>
    /\ ops' = ops /\ submits' = submits /\ logs' = logs /\ wire' = wire
    /\ Track

\* variant: fetchUser logs out when its request fails
FetchUserResolveLogsOut(r) ==
    /\ r \in Pending /\ r.op = "me" /\ r.caller = "fetchUser"
    /\ net' = Take(r)
    /\ auth' = IF r.ok THEN [auth EXCEPT !.user = Account] ELSE Logout(auth)
    /\ UNCHANGED chatVars

\* fetchUser after its await: set({ user }) or, in the catch block,
\* refreshAuth() up to its await
FetchUserResolve(r) ==
    /\ r \in Pending /\ r.op = "me" /\ r.caller = "fetchUser"
    /\ IF r.ok
       THEN /\ auth' = [auth EXCEPT !.user = Account]
            /\ net' = Take(r)
       ELSE IF auth.refreshToken = NoToken
       THEN /\ auth' = Logout(auth)
            /\ net' = Take(r)
       ELSE /\ auth' = auth
            /\ \E q \in RefreshAnswers(auth.refreshToken) :
                  net' = Take(r) (+) SetToBag({q})
    /\ UNCHANGED chatVars

\* variant: a refresh replaces the access token only
RefreshResolveKeepsRefreshToken(r) ==
    /\ r \in Pending /\ r.op = "refresh"
    /\ net' = Take(r)
    /\ auth' = IF r.ok
               THEN [auth EXCEPT !.accessToken = AccessToken(r.gen)]
               ELSE Logout(auth)
    /\ UNCHANGED chatVars

\* refreshAuth after its await
RefreshResolve(r) ==
    /\ r \in Pending /\ r.op = "refresh"
    /\ net' = Take(r)
    /\ auth' = IF r.ok
               THEN [auth EXCEPT !.accessToken = AccessToken(r.gen),
                                 !.refreshToken = RefreshToken(r.gen)]
               ELSE Logout(auth)
    /\ UNCHANGED chatVars

\* LoginPage.handleChange: if (error) clearError()
AuthClearError ==
    /\ ~auth.isAuthenticated /\ auth.error /= Null
    /\ auth' = [auth EXCEPT !.error = Null]
    /\ UNCHANGED <<chatVars, net>>

\* the store is new, or rehydrated from the storage of an earlier login;
\* the effect of AppContent runs after the first render
AuthInit ==
    /\ srv \in InitSrvs
    /\ sessions = <<>>
    /\ currentSessionId = None
    /\ sessionMessages = <<>>
    /\ isLoadingSessions = FALSE
    /\ isLoadingMessages = FALSE
    /\ isSending = FALSE
    /\ isGeneratingTitle = FALSE
    /\ streamingContent = ""
    /\ currentPhase = Null
    /\ error = Null
    /\ route = None
    /\ timers = EmptyBag
    /\ titleTimers = EmptyBag
    /\ sends = [k \in SendIds |-> IdleSend]
    /\ net = EmptyBag
    /\ removed = {}
    /\ ops = 0
    /\ submits = 0
    /\ effectDirty = FALSE
    /\ logs = [k \in SendIds |-> <<>>]
    /\ wire = [k \in SendIds |-> NoWire]
    /\ auth \in {SignedOut, SignedIn}
    /\ authDirty = auth.isAuthenticated

AuthNext ==
    \/ AuthUser(LoginStart)
    \/ AuthAuto(\E r \in Pending : LoginTokens(r))
    \/ AuthAuto(\E r \in Pending : LoginUser(r))
    \/ AuthUser(RegisterStart)
    \/ AuthAuto(\E r \in Pending : RegisterResolve(r))
    \/ AuthUser(LogoutClick)
    \/ AuthEffectRun
    \/ AuthAuto(\E r \in Pending : FetchUserResolve(r))
    \/ AuthAuto(\E r \in Pending : RefreshResolve(r))
    \/ AuthAuto(AuthClearError)
    \/ Auto(\E r \in Pending : FetchResolve(r))

AuthSpec == AuthInit /\ [][AuthNext]_vars

\* login throws in this step: its credentials were refused, or its request
\* for the user failed after the tokens were received
LoginThrows ==
    \E r \in Pending :
        /\ net' = Take(r)
        /\ ~r.ok
        /\ \/ r.op = "login"
           \/ r.op = "me" /\ r.caller = "login"

\* C38: a failed login leaves the client unauthenticated: whenever login
\* throws, isAuthenticated is false and no access token is held; and in
\* every state a step leads to, isAuthenticated implies an access token.
C38_FailedLoginUnauthenticated ==
    [][/\ LoginThrows =>
             (~auth'.isAuthenticated /\ auth'.accessToken = NoToken)
       /\ auth'.isAuthenticated => auth'.accessToken /= NoToken
      ]_vars

\* the requests of the given operation in flight, as a number
InFlight(b, op) ==
    LET rs == {r \in BagToSet(b) : r.op = op}
    IN  BagCardinality([r \in rs |-> b[r]])

\* the answer r leaves the requests in flight in this step
Leaves(r) == CopiesIn(r, net') = CopiesIn(r, net) - 1

\* the fields logout clears are cleared after this step
LoggedOut ==
    /\ auth'.user = NoUser
    /\ auth'.accessToken = NoToken
    /\ auth'.refreshToken = NoToken
    /\ ~auth'.isAuthenticated

\* C39: when the request of fetchUser fails, one refreshAuth is attempted:
\* without a refresh token it logs out, else it issues one refresh request
\* with the token; a refresh that fails logs out; a refresh that succeeds
\* replaces both tokens and leaves isAuthenticated and user as they were;
\* fetchUser without an access token issues no request and changes nothing.
C39_CredentialRecovery ==
    [][/\ \A r \in Pending :
             (r.op = "me" /\ r.caller = "fetchUser" /\ ~r.ok /\ Leaves(r)) =>
                 IF auth.refreshToken = NoToken
                 THEN LoggedOut /\ net' = Take(r)
                 ELSE /\ auth' = auth
                      /\ \E q \in RefreshAnswers(auth.refreshToken) :
                            net' = Take(r) (+) SetToBag({q})
       /\ \A r \in Pending :
             (r.op = "refresh" /\ Leaves(r)) =>
                 /\ net' = Take(r)
                 /\ IF r.ok
                    THEN /\ auth'.accessToken = AccessToken(r.gen)
                         /\ auth'.refreshToken = RefreshToken(r.gen)
                         /\ auth'.isAuthenticated = auth.isAuthenticated
                         /\ auth'.user = auth.user
                    ELSE LoggedOut
       /\ (authDirty /\ ~authDirty' /\ auth.accessToken = NoToken) =>
             /\ auth' = auth
             /\ InFlight(net', "me") = InFlight(net, "me")
             /\ InFlight(net', "refresh") = InFlight(net, "refresh")
      ]_vars

\* a refresh answered with new tokens after the request of fetchUser
\* failed: both tokens are the new ones, the user is still signed in
C39_Witness ==
    /\ auth.isAuthenticated /\ auth.user = Account
    /\ auth.accessToken = AccessToken(2)
    /\ auth.refreshToken = RefreshToken(2)
    /\ ops = 0 /\ ~authDirty
    /\ InFlight(net, "refresh") = 0 /\ InFlight(net, "me") = 0

====
